---- MODULE Spec2Model ----
(***************************************************************************)
(* Model of the ResQme batch media-generation pipeline:                    *)
(*   - ElevenLabsTTS (src/src/resqme/pipelines/tts/elevenlabs_tts.py):     *)
(*     construction, list_voices, synthesize_text, synthesize_csv;         *)
(*   - MonologueGenerator (src/Generate_Data/scripts/llm/                  *)
(*     generate_with_openai.py): _call_gpt, generate_for_disease, run_all. *)
(* Python strings are sequences of one-character strings, so that          *)
(* str.strip(), str() of a missing cell and f-string formatting are        *)
(* computed rather than assumed.                                           *)
(***************************************************************************)
EXTENDS Integers, Sequences, FiniteSets, Bags, TLC

\* ------------------------------------------------------------------ bounds
\* Largest number of data lines of the input CSV file.
MaxRows == 2

\* ------------------------------------------------------------- Python values
\* Python's None, for optional arguments that are names or voice ids.
None == "None"
\* An unset / None character string (api key argument, environment variable).
NoneStr == <<"None">>
\* The missing value (float nan) pandas stores for a blank cell.
NaN == <<"NaN">>

Range(s) == {s[i] : i \in 1..Len(s)}

\* Python truthiness of an optional name / voice id: None and "" are falsy.
Truthy(v) == v # None /\ v # ""

\* Python truthiness of an optional character string.
TruthyStr(s) == s # NoneStr /\ s # <<>>

IsSpace(ch) == ch = " "

RECURSIVE LStrip(_)
LStrip(s) == IF s # <<>> /\ IsSpace(Head(s)) THEN LStrip(Tail(s)) ELSE s

RECURSIVE RStrip(_)
RStrip(s) ==
    IF s # <<>> /\ IsSpace(s[Len(s)]) THEN RStrip(SubSeq(s, 1, Len(s) - 1)) ELSE s

\* str.strip(): leading and trailing whitespace removed.
Strip(s) == RStrip(LStrip(s))

\* str(value) of a DataFrame cell: a string is itself, the missing value is "nan".
Str(v) == IF v = NaN THEN <<"n", "a", "n">> ELSE v

DigitChars == <<"0", "1", "2", "3", "4", "5", "6", "7", "8", "9">>

RECURSIVE Dec(_)
\* Decimal digits of a natural number.
Dec(n) == IF n < 10 THEN <<DigitChars[n + 1]>>
          ELSE Dec(n \div 10) \o <<DigitChars[(n % 10) + 1]>>

RECURSIVE ZeroPad(_, _)
\* Format spec 0<w>d: left-pad with zeros to at least w characters.
ZeroPad(s, w) == IF Len(s) >= w THEN s ELSE ZeroPad(<<"0">> \o s, w)

\* Variant: the generated ids count from 1.
UttId_OneBased(i) == <<"u", "t", "t", "_">> \o ZeroPad(Dec(i + 1), 4)

\* f"utt_{i:04d}"
UttId(i) == <<"u", "t", "t", "_">> \o ZeroPad(Dec(i), 4)

\* out_dir / f"{row_id}.mp3" (out_dir is the one resolved output directory).
OutPath(row_id) == row_id \o <<".", "m", "p", "3">>

\* ------------------------------------------------------------ input domains
\* Raw text cells of the CSV file: blank, whitespace-only, padded text.
RawTexts == {<<>>, <<" ">>, <<" ", "a", " ">>}
\* Raw id cells of the CSV file.
RawIds == {<<"a">>, <<"b">>}

RawCells(col) == IF col = "id" THEN RawIds ELSE RawTexts

\* Headers of the input CSV files (column order as in the file).
Headers == { <<"id", "text">>, <<"monologue", "text">>, <<"notes", "id">>,
             <<"monologue">> }

\* A data line: one raw cell per header column.
Lines(header) ==
    { l \in [1..Len(header) -> RawIds \cup RawTexts] :
        \A j \in 1..Len(header) : l[j] \in RawCells(header[j]) }

RECURSIVE SeqsUpTo(_, _)
\* All sequences over S of length at most n.
SeqsUpTo(S, n) ==
    IF n = 0 THEN {<<>>}
    ELSE LET shorter == SeqsUpTo(S, n - 1)
         IN shorter \cup {Append(s, x) : s \in {t \in shorter : Len(t) = n - 1}, x \in S}

CsvFiles ==
    UNION { { [header |-> h, lines |-> ls] : ls \in SeqsUpTo(Lines(h), MaxRows) }
            : h \in Headers }

\* text_col argument values: not given, a present candidate, a present
\* non-candidate, (depending on the header) an absent column.
TextColArgs == {None, "monologue", "notes"}

VoiceIds == {"V1", "V2"}
FixedVoiceArgs == {None, "V1"}

\* Voice descriptors of GET /voices; voice_id may be null.
Voice(v, n) == [voice_id |-> v, name |-> n]
VoiceLists == { <<>>, <<Voice(None, "n0")>>, <<Voice("V1", "n1")>>,
                <<Voice("V2", "n2"), Voice("V1", "n1")>> }

\* Outcomes of one HTTP exchange: a status code, or a transport error/timeout.
HttpOutcomes == {"200", "401", "500", "exception"}

\* api_key argument and ELEVENLABS_API_KEY environment values.
KeyArgs == {NoneStr, <<" ">>, <<"k">>}
KeyEnvs == {NoneStr, <<>>, <<"k", " ">>, <<"s", "k", "_", "a", "b", "c", "d", "e">>}

\* sub in s, for strings as sequences of characters.
Contains(sub, s) ==
    \E j \in 0..(Len(s) - Len(sub)) : SubSeq(s, j + 1, j + Len(sub)) = sub

\* Default of the model_id parameter of synthesize_text and synthesize_csv.
DefaultModel == <<"e", "l", "e", "v", "e", "n", "_", "v", "3">>

\* model_id arguments: the default, another model of the v3 family, and two
\* models outside it.
ModelIds == {DefaultModel, <<"m", "_", "v", "3", "x">>, <<"b", "a", "s", "i", "c">>,
             <<"v", "_", "3">>}

\* Variant: one bracket is enough for the upgrade.
SentModel_EitherBracket(text, mid) ==
    IF (Contains(<<"[">>, text) \/ Contains(<<"]">>, text)) /\ ~Contains(<<"v", "3">>, mid)
    THEN DefaultModel ELSE mid

\* Lines 84-87: the model placed in the payload of one request.
SentModel(text, mid) ==
    IF Contains(<<"[">>, text) /\ Contains(<<"]">>, text) /\ ~Contains(<<"v", "3">>, mid)
    THEN <<"e", "l", "e", "v", "e", "n", "_", "v", "3">> ELSE mid

\* Python slice s[-n:].
LastChars(s, n) == SubSeq(s, (IF Len(s) > n THEN Len(s) - n + 1 ELSE 1), Len(s))

\* Lines 53 and 104: tail = self.api_key[-6:] if self.api_key else "None"
KeyTail(key) == IF TruthyStr(key) THEN LastChars(key, 6) ELSE <<"N", "o", "n", "e">>

VARIABLES
    pc,             \* position of the TTS program
    api_key,        \* ElevenLabsTTS.api_key
    csv,            \* the CSV file passed to synthesize_csv
    df,             \* the DataFrame: [columns, rows]
    text_col,       \* text column in use
    id_col,         \* id column argument
    fixed_voice_id, \* fixed_voice_id argument
    random_voice,   \* random_voice argument
    pool,           \* voice pool
    idx,            \* 1-based position of the row iterator
    rows,           \* ledger under construction
    returned,       \* DataFrame returned by synthesize_csv, or NotReturned
    error,          \* exception that escaped, or None
    inflight,       \* the text-to-speech requests awaiting their response
    calls,          \* history: invocations of synthesize_text, in order
    failed,         \* history: row positions whose synthesis raised
    entry_rows,     \* history: row position of each ledger entry
    skipped,        \* history: row positions skipped for empty text
    files,          \* output files written
    voice_fetches,  \* history: number of GET /voices requests
    sleeps,         \* history: number of rate-limit sleeps
    model_id,       \* model_id argument of synthesize_csv
    auth_tails      \* history: credential excerpts shown in 401 errors

ttsVars == <<pc, api_key, csv, df, text_col, id_col, fixed_voice_id, random_voice,
             pool, idx, rows, returned, error, inflight, calls, failed, entry_rows,
             skipped, files, voice_fetches, sleeps, model_id, auth_tails>>

VARIABLES
    gpc,            \* position of the generator program
    spec,           \* GenerationSpec
    symptom_df,     \* the symptom matrix
    d_idx,          \* 1-based position in diseases()
    unit,           \* 1-based iteration of the loop of generate_for_disease
    sampled,        \* symptoms sampled for the current unit
    attempt,        \* loop variable of _call_gpt
    delay,          \* delay of _call_gpt
    fails_left,     \* provider script: failures before it answers
    content,        \* provider script: the text it answers with
    result,         \* value returned by _call_gpt
    outputs,        \* rows of the current generate_for_disease
    all_rows,       \* rows of run_all
    out_csv,        \* lines of the output CSV file, the header line included
    g_returned,     \* list returned by run_all, or NotReturned
    g_error,        \* exception that escaped run_all, or None
    fails_script,   \* history: failures scripted for the current call
    provider_calls, \* history: provider calls made by the current _call_gpt
    waits,          \* history: backoff sleeps of the current _call_gpt
    exhausted,      \* history: the current _call_gpt ran out of attempts
    units_started,  \* history: units for which _call_gpt was called
    units_exhausted,\* history: units whose retries were exhausted
    units_falsy,    \* history: units answered with an empty text
    out_prior       \* the output CSV as it was before construction

gptVars == <<gpc, spec, symptom_df, d_idx, unit, sampled, attempt, delay, fails_left,
             content, result, outputs, all_rows, out_csv, g_returned, g_error,
             fails_script, provider_calls, waits, exhausted, units_started,
             units_exhausted, units_falsy, out_prior>>

VARIABLES
    h_pc,           \* position of the text-column step taken alone
    h_columns,      \* df.columns
    h_arg,          \* text_col argument
    h_text_col      \* text_col after the inference step

inferVars == <<h_pc, h_columns, h_arg, h_text_col>>

VARIABLES
    cli_pc,         \* position of the command-line program (cmd_csv)
    args,           \* parsed command-line arguments
    cli_fixed,      \* fixed_voice_id local of cmd_csv
    cli_error,      \* SystemExit raised by the command, or None
    mix_idx,        \* 1-based position of the mixing loop in the ledger
    mixed_rows,     \* mixed_rows of cmd_csv
    out_df,         \* out_df of cmd_csv, or NotReturned
    mix_calls,      \* history: speech paths handed to ffmpeg, in order
    mix_failed      \* history: ledger positions whose mixing raised

cliVars == <<cli_pc, args, cli_fixed, cli_error, mix_idx, mixed_rows, out_df,
             mix_calls, mix_failed>>

VARIABLES
    k_pc,           \* position of _auto_pick_existing_voice taken alone
    k_outcome,      \* outcome of its GET /voices
    k_voices,       \* the voice list the provider reports
    k_picked        \* the value it returns

pickVars == <<k_pc, k_outcome, k_voices, k_picked>>

VARIABLES
    par_pc,         \* position of the main thread of the parallel script
    in_rows,        \* rows of the input CSV, header first
    next_enum,      \* enum of the submit loop
    queue,          \* submitted work items not yet taken by a worker
    running,        \* work items held by a worker thread
    results,        \* (enum, success) of the finished futures, in completion order
    collected,      \* futures whose result the main thread has read
    submits,        \* history: enum of each executor.submit, in order
    converts,       \* history: bag of the enums text_to_speech.convert was called for
    audio_files,    \* audio files written
    output_file     \* lines of output.csv, or NotReturned before it is opened

parVars == <<par_pc, in_rows, next_enum, queue, running, results,
             collected, submits, converts, audio_files, output_file>>

toolVars == <<cliVars, pickVars, parVars>>

VARIABLES
    q_pc,           \* position of diseases() taken alone
    q_class,        \* which MonologueGenerator: "minimal" or "full"
    q_index,        \* symptom_df.index
    q_cap,          \* spec.max_diseases (full generator)
    q_result        \* the list diseases() returns

capVars == <<q_pc, q_class, q_index, q_cap, q_result>>

VARIABLES
    t_pc,           \* position of synthesize_text taken alone
    t_prior,        \* the output location before the call
    t_disk,         \* the output location: parent directory and file
    t_outcome,      \* outcome of the POST, or None before the response
    t_body,         \* chunks of the response body still to be read
    t_error,        \* exception raised by synthesize_text, or None
    t_result        \* path returned by synthesize_text, or NoneStr

textVars == <<t_pc, t_prior, t_disk, t_outcome, t_body, t_error, t_result>>

unitVars == <<capVars, textVars>>

NotReturned == <<"NotReturned">>
NoCsv == [header |-> <<>>, lines |-> <<>>]
NoDf == [columns |-> <<>>, rows |-> <<>>]

\* ----------------------------------------------------------- pandas.read_csv
\* skip_blank_lines: a line holding nothing but whitespace is dropped; only a
\* single-column file can have such a line (others hold a delimiter).
IsBlankLine(line) == Len(line) = 1 /\ Strip(line[1]) = <<>>

\* A blank field is the missing value; any other field is kept verbatim.
ParseCell(raw) == IF raw = <<>> THEN NaN ELSE raw

RECURSIVE KeptLines(_)
KeptLines(lines) ==
    IF lines = <<>> THEN <<>>
    ELSE IF IsBlankLine(Head(lines)) THEN KeptLines(Tail(lines))
         ELSE <<Head(lines)>> \o KeptLines(Tail(lines))

\* Position of column c in a header that contains it.
ColPos(header, c) == CHOOSE j \in 1..Len(header) : header[j] = c

ReadCsv(file) ==
    LET kept == KeptLines(file.lines)
    IN [columns |-> file.header,
        rows |-> [i \in 1..Len(kept) |->
                    [c \in Range(file.header) |->
                        ParseCell(kept[i][ColPos(file.header, c)])]]]

\* ------------------------------------------------ synthesize_csv, the set-up
TextCandidates == <<"text", "monologue", "prompt", "content", "generated_call">>

RECURSIVE FirstPresent_HeaderOrder(_, _)
\* Variant: the header is scanned, and its first candidate column is taken.
FirstPresent_HeaderOrder(candidates, columns) ==
    IF columns = <<>> THEN None
    ELSE IF Head(columns) \in Range(candidates) THEN Head(columns)
         ELSE FirstPresent_HeaderOrder(candidates, Tail(columns))

RECURSIVE FirstPresent(_, _)
\* for c in candidates: if c in columns: return c  (None if the loop ends)
FirstPresent(candidates, columns) ==
    IF candidates = <<>> THEN None
    ELSE IF Head(candidates) \in Range(columns) THEN Head(candidates)
         ELSE FirstPresent(Tail(candidates), columns)

\* Lines 146-150: the text column after the inference step.
InferTextCol(arg, columns) ==
    IF arg = None THEN FirstPresent(TextCandidates, columns) ELSE arg

\* Line 151: the condition under which ValueError is raised.
TextColMissing(col, columns) == ~Truthy(col) \/ col \notin Range(columns)

\* Lines 154-155: add the id column with generated ids when it is absent.
WithIdColumn(frame, idc) ==
    IF idc \in Range(frame.columns) THEN frame
    ELSE [columns |-> Append(frame.columns, idc),
          rows |-> [i \in 1..Len(frame.rows) |->
                      [c \in Range(frame.columns) \cup {idc} |->
                          IF c = idc THEN UttId(i - 1) ELSE frame.rows[i][c]]]]

\* Line 161: voices["voice_id"].dropna().astype(str).tolist()
RECURSIVE PoolOf(_)
PoolOf(voices) ==
    IF voices = <<>> THEN <<>>
    ELSE IF Head(voices).voice_id = None THEN PoolOf(Tail(voices))
         ELSE <<Head(voices).voice_id>> \o PoolOf(Tail(voices))

\* ----------------------------------------------------------------- actions
TtsInit ==
    /\ pc = "new"
    /\ api_key = <<>>
    /\ csv = NoCsv
    /\ df = NoDf
    /\ text_col = None
    /\ id_col = "id"
    /\ fixed_voice_id = None
    /\ random_voice = FALSE
    /\ pool = <<>>
    /\ idx = 0
    /\ rows = <<>>
    /\ returned = NotReturned
    /\ error = None
    /\ inflight = {}
    /\ calls = <<>>
    /\ failed = {}
    /\ entry_rows = <<>>
    /\ skipped = {}
    /\ files = {}
    /\ voice_fetches = 0
    /\ sleeps = 0
    /\ model_id = DefaultModel
    /\ auth_tails = {}

\* ElevenLabsTTS.__init__: (api_key or getenv(...) or "").strip(); raise if empty.
ResolvedKey(arg, env) ==
    Strip(IF TruthyStr(arg) THEN arg ELSE IF TruthyStr(env) THEN env ELSE <<>>)

Construct(arg, env) ==
    /\ pc = "new"
    /\ LET key == ResolvedKey(arg, env)
       IN /\ api_key' = key
          /\ IF key = <<>>
             THEN pc' = "raised" /\ error' = "RuntimeError:MissingKey"
             ELSE pc' = "idle" /\ error' = error
    /\ UNCHANGED <<csv, df, text_col, id_col, fixed_voice_id, random_voice, pool, idx,
                   rows, returned, inflight, calls, failed, entry_rows, skipped, files,
                   voice_fetches, sleeps>>
    /\ UNCHANGED <<model_id, auth_tails>>
    /\ UNCHANGED <<gptVars, inferVars, toolVars, unitVars>>

\* synthesize_csv lines 144-166 up to the voice pool request.
SynthesizeCsvSetup(file, tcol, fixed, rnd, mid) ==
    /\ pc = "idle"
    /\ csv' = file
    /\ fixed_voice_id' = fixed
    /\ random_voice' = rnd
    /\ model_id' = mid
    /\ LET frame == ReadCsv(file)
           col == InferTextCol(tcol, frame.columns)
       IN /\ text_col' = col
          /\ IF TextColMissing(col, frame.columns)
             THEN /\ df' = frame
                  /\ pc' = "raised"
                  /\ error' = "ValueError:NoTextColumn"
                  /\ idx' = idx
             ELSE /\ df' = WithIdColumn(frame, id_col)
                  /\ error' = error
                  /\ IF rnd THEN pc' = "list_voices" /\ idx' = idx
                            ELSE pc' = "loop" /\ idx' = 1
    /\ UNCHANGED <<api_key, id_col, pool, rows, returned, inflight, calls, failed, entry_rows,
                   skipped, files, voice_fetches, sleeps, auth_tails>>
    /\ UNCHANGED <<gptVars, inferVars, toolVars, unitVars>>

\* synthesize_csv is called on some file with some arguments.
SynthesizeCsvBegin ==
    /\ pc = "idle"
    /\ \E file \in CsvFiles, tcol \in TextColArgs, fixed \in FixedVoiceArgs,
          rnd \in BOOLEAN : SynthesizeCsvSetup(file, tcol, fixed, rnd, DefaultModel)

\* Variant: the pool is not checked for emptiness.
ListVoicesForPool_NoPoolCheck(outcome, voices) ==
    /\ pc = "list_voices"
    /\ voice_fetches' = voice_fetches + 1
    /\ auth_tails' = IF outcome = "401" THEN auth_tails \cup {KeyTail(api_key)}
                                        ELSE auth_tails
    /\ IF outcome = "exception"
       THEN pc' = "raised" /\ error' = "ConnectionError" /\ pool' = pool /\ idx' = idx
       ELSE IF outcome = "401"
       THEN pc' = "raised" /\ error' = "RuntimeError:401" /\ pool' = pool /\ idx' = idx
       ELSE IF outcome # "200"
       THEN pc' = "raised" /\ error' = "HTTPError" /\ pool' = pool /\ idx' = idx
       ELSE IF voices = <<>>
       THEN pc' = "raised" /\ error' = "KeyError" /\ pool' = pool /\ idx' = idx
       ELSE pc' = "loop" /\ error' = error /\ pool' = PoolOf(voices) /\ idx' = 1
    /\ UNCHANGED <<api_key, csv, df, text_col, id_col, fixed_voice_id, random_voice,
                   rows, returned, inflight, calls, failed, entry_rows, skipped, files,
                   sleeps>>
    /\ UNCHANGED model_id
    /\ UNCHANGED <<gptVars, inferVars, toolVars, unitVars>>

\* list_voices (lines 49-64) as called from synthesize_csv lines 159-163.
ListVoicesForPool(outcome, voices) ==
    /\ pc = "list_voices"
    /\ voice_fetches' = voice_fetches + 1
    /\ auth_tails' = IF outcome = "401" THEN auth_tails \cup {KeyTail(api_key)}
                                        ELSE auth_tails
    /\ IF outcome = "exception"
       THEN pc' = "raised" /\ error' = "ConnectionError" /\ pool' = pool /\ idx' = idx
       ELSE IF outcome = "401"
       THEN pc' = "raised" /\ error' = "RuntimeError:401" /\ pool' = pool /\ idx' = idx
       ELSE IF outcome # "200"
       THEN pc' = "raised" /\ error' = "HTTPError" /\ pool' = pool /\ idx' = idx
       ELSE IF voices = <<>>
       THEN \* DataFrame([]) has no voice_id column
            pc' = "raised" /\ error' = "KeyError" /\ pool' = pool /\ idx' = idx
       ELSE IF PoolOf(voices) = <<>>
       THEN /\ pc' = "raised" /\ error' = "RuntimeError:NoVoices"
            /\ pool' = PoolOf(voices) /\ idx' = idx
       ELSE pc' = "loop" /\ error' = error /\ pool' = PoolOf(voices) /\ idx' = 1
    /\ UNCHANGED <<api_key, csv, df, text_col, id_col, fixed_voice_id, random_voice,
                   rows, returned, inflight, calls, failed, entry_rows, skipped, files, sleeps>>
    /\ UNCHANGED model_id
    /\ UNCHANGED <<gptVars, inferVars, toolVars, unitVars>>

\* Variant: the text is not stripped.
RowText_Untrimmed(i) == Str(df.rows[i][text_col])

\* Line 171: the id of the row under the iterator.
RowId(i) == Str(df.rows[i][id_col])

\* Line 172: the text of the row under the iterator.
RowText(i) == Strip(Str(df.rows[i][text_col]))

\* Variant: a random voice is drawn from the provider's voices, not from pool.
VoiceChoices_Uncached ==
    IF Truthy(fixed_voice_id) THEN {fixed_voice_id}
    ELSE IF random_voice THEN VoiceIds ELSE {None}

\* Line 177: the candidates of fixed_voice_id or (random.choice(pool) if
\* random_voice else None).
VoiceChoices ==
    IF Truthy(fixed_voice_id) THEN {fixed_voice_id}
    ELSE IF random_voice THEN Range(pool) ELSE {None}

\* Lines 170-175: a row whose text is empty is skipped.
SkipEmptyRow ==
    /\ pc = "loop"
    /\ idx <= Len(df.rows)
    /\ RowText(idx) = <<>>
    /\ skipped' = skipped \cup {idx}
    /\ idx' = idx + 1
    /\ UNCHANGED <<pc, api_key, csv, df, text_col, id_col, fixed_voice_id,
                   random_voice, pool, rows, returned, error, inflight, calls,
                   failed, entry_rows, files, voice_fetches, sleeps>>
    /\ UNCHANGED <<model_id, auth_tails>>
    /\ UNCHANGED <<gptVars, inferVars, toolVars, unitVars>>

\* Variant: a row without a voice is skipped like a row without text.
RaiseNoVoice_Skip ==
    /\ pc = "loop"
    /\ idx <= Len(df.rows)
    /\ RowText(idx) # <<>>
    /\ \E v \in VoiceChoices : ~Truthy(v)
    /\ skipped' = skipped \cup {idx}
    /\ idx' = idx + 1
    /\ UNCHANGED <<pc, api_key, csv, df, text_col, id_col, fixed_voice_id,
                   random_voice, pool, rows, returned, error, inflight, calls,
                   failed, entry_rows, files, voice_fetches, sleeps>>
    /\ UNCHANGED <<model_id, auth_tails>>
    /\ UNCHANGED <<gptVars, inferVars, toolVars, unitVars>>

\* Lines 177-179: no voice for the row: ValueError, outside the try block.
RaiseNoVoice ==
    /\ pc = "loop"
    /\ idx <= Len(df.rows)
    /\ RowText(idx) # <<>>
    /\ \E v \in VoiceChoices : ~Truthy(v)
    /\ pc' = "raised"
    /\ error' = "ValueError:NoVoice"
    /\ UNCHANGED <<api_key, csv, df, text_col, id_col, fixed_voice_id, random_voice,
                   pool, idx, rows, returned, inflight, calls, failed, entry_rows, skipped,
                   files, voice_fetches, sleeps>>
    /\ UNCHANGED <<model_id, auth_tails>>
    /\ UNCHANGED <<gptVars, inferVars, toolVars, unitVars>>

\* Lines 177-193 and 84-102: synthesize_text is entered and the POST is sent.
SendRequest(v) ==
    /\ pc = "loop"
    /\ idx <= Len(df.rows)
    /\ RowText(idx) # <<>>
    /\ v \in VoiceChoices
    /\ Truthy(v)
    /\ LET req == [idx |-> idx, text |-> RowText(idx), voice_id |-> v,
                   output_path |-> OutPath(RowId(idx)),
                   model_id |-> SentModel(RowText(idx), model_id)]
       IN /\ inflight' = inflight \cup {req}
          /\ calls' = Append(calls, req)
    /\ pc' = "request"
    /\ UNCHANGED <<api_key, csv, df, text_col, id_col, fixed_voice_id, random_voice,
                   pool, idx, rows, returned, error, failed, entry_rows, skipped,
                   files, voice_fetches, sleeps>>
    /\ UNCHANGED <<model_id, auth_tails>>
    /\ UNCHANGED <<gptVars, inferVars, toolVars, unitVars>>

\* Variant: no try/except around synthesize_text, the error escapes.
ReceiveResponse_Uncaught(outcome) ==
    /\ pc = "request"
    /\ \E req \in inflight :
          /\ req.idx = idx
          /\ inflight' = inflight \ {req}
          /\ auth_tails' = IF outcome = "401" THEN auth_tails \cup {KeyTail(api_key)}
                                              ELSE auth_tails
          /\ IF outcome = "200"
             THEN /\ files' = files \cup {req.output_path}
                  /\ rows' = Append(rows, [id |-> RowId(idx), voice_id |-> req.voice_id,
                                           path |-> req.output_path])
                  /\ entry_rows' = Append(entry_rows, idx)
                  /\ failed' = failed
                  /\ pc' = "sleep"
                  /\ error' = error
             ELSE /\ failed' = failed \cup {idx}
                  /\ pc' = "raised"
                  /\ error' = "RuntimeError:TTS"
                  /\ UNCHANGED <<files, rows, entry_rows>>
    /\ UNCHANGED <<api_key, csv, df, text_col, id_col, fixed_voice_id, random_voice,
                   pool, idx, returned, calls, skipped, voice_fetches, sleeps>>
    /\ UNCHANGED model_id
    /\ UNCHANGED <<gptVars, inferVars, toolVars, unitVars>>

\* Variant: a failed row gets a ledger entry too, without a path.
ReceiveResponse_FailedEntry(outcome) ==
    /\ pc = "request"
    /\ \E req \in inflight :
          /\ req.idx = idx
          /\ inflight' = inflight \ {req}
          /\ auth_tails' = IF outcome = "401" THEN auth_tails \cup {KeyTail(api_key)}
                                              ELSE auth_tails
          /\ entry_rows' = Append(entry_rows, idx)
          /\ IF outcome = "200"
             THEN /\ files' = files \cup {req.output_path}
                  /\ rows' = Append(rows, [id |-> RowId(idx), voice_id |-> req.voice_id,
                                           path |-> req.output_path])
                  /\ failed' = failed
             ELSE /\ failed' = failed \cup {idx}
                  /\ rows' = Append(rows, [id |-> RowId(idx), voice_id |-> req.voice_id,
                                           path |-> NoneStr])
                  /\ files' = files
    /\ pc' = "sleep"
    /\ UNCHANGED <<api_key, csv, df, text_col, id_col, fixed_voice_id, random_voice,
                   pool, idx, returned, error, calls, skipped, voice_fetches, sleeps>>
    /\ UNCHANGED model_id
    /\ UNCHANGED <<gptVars, inferVars, toolVars, unitVars>>

\* Variant: the sleep is inside the try block, a failed row is not followed
\* by it.
ReceiveResponse_NoSleepOnFailure(outcome) ==
    /\ pc = "request"
    /\ \E req \in inflight :
          /\ req.idx = idx
          /\ inflight' = inflight \ {req}
          /\ auth_tails' = IF outcome = "401" THEN auth_tails \cup {KeyTail(api_key)}
                                              ELSE auth_tails
          /\ IF outcome = "200"
             THEN /\ files' = files \cup {req.output_path}
                  /\ rows' = Append(rows, [id |-> RowId(idx), voice_id |-> req.voice_id,
                                           path |-> req.output_path])
                  /\ entry_rows' = Append(entry_rows, idx)
                  /\ failed' = failed
                  /\ pc' = "sleep"
                  /\ idx' = idx
             ELSE /\ failed' = failed \cup {idx}
                  /\ pc' = "loop"
                  /\ idx' = idx + 1
                  /\ UNCHANGED <<files, rows, entry_rows>>
    /\ UNCHANGED <<api_key, csv, df, text_col, id_col, fixed_voice_id, random_voice,
                   pool, returned, error, calls, skipped, voice_fetches, sleeps>>
    /\ UNCHANGED model_id
    /\ UNCHANGED <<gptVars, inferVars, toolVars, unitVars>>

\* Lines 102-120 and 194-197: the response; success writes the file and appends
\* the ledger entry, anything else is raised and caught by the except clause.
ReceiveResponse(outcome) ==
    /\ pc = "request"
    /\ \E req \in inflight :
          /\ req.idx = idx
          /\ inflight' = inflight \ {req}
          /\ auth_tails' = IF outcome = "401" THEN auth_tails \cup {KeyTail(api_key)}
                                              ELSE auth_tails
          /\ IF outcome = "200"
             THEN /\ files' = files \cup {req.output_path}
                  /\ rows' = Append(rows, [id |-> RowId(idx), voice_id |-> req.voice_id,
                                           path |-> req.output_path])
                  /\ entry_rows' = Append(entry_rows, idx)
                  /\ failed' = failed
             ELSE /\ failed' = failed \cup {idx}
                  /\ UNCHANGED <<files, rows, entry_rows>>
    /\ pc' = "sleep"
    /\ UNCHANGED <<api_key, csv, df, text_col, id_col, fixed_voice_id, random_voice,
                   pool, idx, returned, error, calls, skipped, voice_fetches, sleeps>>
    /\ UNCHANGED model_id
    /\ UNCHANGED <<gptVars, inferVars, toolVars, unitVars>>

\* Line 198: time.sleep(sleep_sec), then the iterator advances.
Sleep ==
    /\ pc = "sleep"
    /\ sleeps' = sleeps + 1
    /\ idx' = idx + 1
    /\ pc' = "loop"
    /\ UNCHANGED <<api_key, csv, df, text_col, id_col, fixed_voice_id, random_voice,
                   pool, rows, returned, error, inflight, calls, failed, entry_rows, skipped,
                   files, voice_fetches>>
    /\ UNCHANGED <<model_id, auth_tails>>
    /\ UNCHANGED <<gptVars, inferVars, toolVars, unitVars>>

\* Line 200: the loop is over, the ledger is returned.
ReturnLedger ==
    /\ pc = "loop"
    /\ idx > Len(df.rows)
    /\ returned' = rows
    /\ pc' = "done"
    /\ UNCHANGED <<api_key, csv, df, text_col, id_col, fixed_voice_id, random_voice,
                   pool, idx, rows, error, inflight, calls, failed, entry_rows, skipped, files,
                   voice_fetches, sleeps>>
    /\ UNCHANGED <<model_id, auth_tails>>
    /\ UNCHANGED <<gptVars, inferVars, toolVars, unitVars>>

\* ======================================================================
\* MonologueGenerator (generate_with_openai.py)
\* ======================================================================

\* Largest number of consecutive provider failures scripted for one call.
MaxFails == 3

\* Symptom matrices: index (disease labels, in order) and, per disease, the
\* symptom columns with a truthy value, in column order.
Matrix(ds, present) == [index |-> ds, present |-> present]
Matrices ==
    { Matrix(<<"flu">>, [d \in {"flu"} |-> <<"s1">>]),
      Matrix(<<"flu", "cold">>, [d \in {"flu", "cold"} |->
                                    IF d = "flu" THEN <<>> ELSE <<"s1", "s2">>]),
      Matrix(<<"flu", "cold">>, [d \in {"flu", "cold"} |-> <<"s1">>]) }

\* Texts the chat model may return (message.content): empty, None, padded text.
Contents == {<<>>, NoneStr, <<" ", "h">>}

\* Line 93: the header, as DictWriter.writeheader writes it.
HeaderLine == [disease |-> "disease", symptoms_used |-> <<"symptoms_used">>,
               generated_call |-> <<"g", "e", "n", "e", "r", "a", "t", "e", "d",
                                    "_", "c", "a", "l", "l">>]

\* The output CSV before construction: no file, or the ledger of an earlier
\* run (its header, then its rows).
Absent == [exists |-> FALSE, lines |-> <<>>]
EarlierRow == [disease |-> "flu", symptoms_used |-> <<"s1">>, generated_call |-> <<"o">>]
PriorFiles == {Absent,
               [exists |-> TRUE, lines |-> <<HeaderLine>>],
               [exists |-> TRUE, lines |-> <<HeaderLine, EarlierRow>>]}

\* Variant: the file is opened for writing whether or not it exists.
PreparedFile_Truncate(prior) == <<HeaderLine>>

\* Lines 94-98: the header is written when the file does not exist.
PreparedFile(prior) == IF ~prior.exists THEN <<HeaderLine>> ELSE prior.lines

\* Optional[int]: None is the empty set, an integer n is {n}.
Unset == {}
Some(n) == {n}
TheInt(opt) == CHOOSE n \in opt : TRUE

GenSpecs ==
    [max_retries : 0..(MaxFails + 1), delay_seconds : {1, 2}, retry_backoff : {1, 2, 3},
     num_calls_per_disease : {1, 2}, symptoms_per_call : {0, 1, 2},
     max_diseases : {Unset, Some(1)}]

DefaultSpec == [max_retries |-> 3, delay_seconds |-> 2, retry_backoff |-> 2,
                num_calls_per_disease |-> 1, symptoms_per_call |-> 1,
                max_diseases |-> Unset]

GptInit ==
    /\ gpc = "g_idle"
    /\ spec = DefaultSpec
    /\ symptom_df = Matrix(<<>>, <<>>)
    /\ d_idx = 0
    /\ unit = 0
    /\ sampled = <<>>
    /\ attempt = 0
    /\ delay = 0
    /\ fails_left = 0
    /\ content = NoneStr
    /\ result = NoneStr
    /\ outputs = <<>>
    /\ all_rows = <<>>
    /\ out_csv = <<>>
    /\ g_returned = NotReturned
    /\ g_error = None
    /\ fails_script = 0
    /\ provider_calls = 0
    /\ waits = <<>>
    /\ exhausted = FALSE
    /\ units_started = 0
    /\ units_exhausted = 0
    /\ units_falsy = 0
    /\ out_prior = Absent

\* Python slice s[:n]; a negative n counts from the end.
Take(s, n) ==
    SubSeq(s, 1, IF n < 0 THEN (IF Len(s) + n > 0 THEN Len(s) + n ELSE 0)
                 ELSE IF n < Len(s) THEN n ELSE Len(s))

\* Variant: the cap is ignored.
Diseases_NoCap(matrix, cap) == matrix.index

\* diseases(): the index, cut to max_diseases when it is set.
Diseases(matrix, cap) ==
    IF cap # Unset THEN Take(matrix.index, TheInt(cap)) ELSE matrix.index

\* _present_symptoms_for(disease)
PresentSymptoms(matrix, disease) == matrix.present[disease]

Min(a, b) == IF a < b THEN a ELSE b

\* Injective sequences of length k over the elements of s: random.sample(s, k).
Samples(s, k) ==
    { q \in [1..k -> Range(s)] : \A i, j \in 1..k : i # j => q[i] # q[j] }

\* _sample_symptoms: the possible results.
SampleSymptoms(symptoms, per_call) ==
    LET k == Min(per_call, Len(symptoms))
    IN IF k > 0 THEN Samples(symptoms, k) ELSE {<<>>}

RECURSIVE Join(_)
\* ", ".join(names): the names with the separator between neighbours.
Join(names) ==
    IF Len(names) <= 1 THEN names
    ELSE <<Head(names), ", ">> \o Join(Tail(names))

\* __init__ lines 83-98 prepares the output file; run_all lines 208-212:
\* init_client raises when the key or package is missing.
RunAllSetup(gs, matrix, client_ok, prior) ==
    /\ gpc = "g_idle"
    /\ out_prior' = prior
    /\ out_csv' = PreparedFile(prior)
    /\ spec' = gs
    /\ symptom_df' = matrix
    /\ IF client_ok
       THEN gpc' = "disease" /\ d_idx' = 1 /\ g_error' = g_error
       ELSE gpc' = "g_raised" /\ d_idx' = d_idx /\ g_error' = "RuntimeError"
    /\ UNCHANGED <<unit, sampled, attempt, delay, fails_left, content, result, outputs,
                   all_rows, g_returned, fails_script, provider_calls, waits,
                   exhausted, units_started, units_exhausted, units_falsy>>
    /\ UNCHANGED <<ttsVars, inferVars, toolVars, unitVars>>

\* run_all is called on some matrix with some GenerationSpec.
RunAllBegin ==
    /\ gpc = "g_idle"
    /\ \E gs \in GenSpecs, matrix \in Matrices, client_ok \in BOOLEAN,
          prior \in PriorFiles : RunAllSetup(gs, matrix, client_ok, prior)

CurrentDiseases == Diseases(symptom_df, spec.max_diseases)

\* generate_for_disease lines 183-185: no symptom present, nothing generated.
SkipDisease ==
    /\ gpc = "disease"
    /\ d_idx <= Len(CurrentDiseases)
    /\ PresentSymptoms(symptom_df, CurrentDiseases[d_idx]) = <<>>
    /\ d_idx' = d_idx + 1
    /\ UNCHANGED <<gpc, spec, symptom_df, unit, sampled, attempt, delay, fails_left,
                   content, result, outputs, all_rows, out_csv, g_returned, g_error,
                   fails_script, provider_calls, waits, exhausted, units_started,
                   units_exhausted, units_falsy>>
    /\ UNCHANGED out_prior
    /\ UNCHANGED <<ttsVars, inferVars, toolVars, unitVars>>

\* generate_for_disease lines 183-188: the loop over the calls starts.
EnterDisease ==
    /\ gpc = "disease"
    /\ d_idx <= Len(CurrentDiseases)
    /\ PresentSymptoms(symptom_df, CurrentDiseases[d_idx]) # <<>>
    /\ outputs' = <<>>
    /\ unit' = 1
    /\ gpc' = "unit"
    /\ UNCHANGED <<spec, symptom_df, d_idx, sampled, attempt, delay, fails_left,
                   content, result, all_rows, out_csv, g_returned, g_error,
                   fails_script, provider_calls, waits, exhausted, units_started,
                   units_exhausted, units_falsy>>
    /\ UNCHANGED out_prior
    /\ UNCHANGED <<ttsVars, inferVars, toolVars, unitVars>>

\* Lines 189-191: nothing sampled, the iteration is skipped (no sleep).
SkipUnit ==
    /\ gpc = "unit"
    /\ unit <= spec.num_calls_per_disease
    /\ \E q \in SampleSymptoms(PresentSymptoms(symptom_df, CurrentDiseases[d_idx]),
                               spec.symptoms_per_call) : q = <<>>
    /\ unit' = unit + 1
    /\ UNCHANGED <<gpc, spec, symptom_df, d_idx, sampled, attempt, delay, fails_left,
                   content, result, outputs, all_rows, out_csv, g_returned, g_error,
                   fails_script, provider_calls, waits, exhausted, units_started,
                   units_exhausted, units_falsy>>
    /\ UNCHANGED out_prior
    /\ UNCHANGED <<ttsVars, inferVars, toolVars, unitVars>>

\* Lines 189-193 and 140-144: symptoms sampled, _call_gpt entered. n and text
\* script the provider: it fails n times in a row, then answers text.
CallGptBegin(n, text) ==
    /\ gpc = "unit"
    /\ unit <= spec.num_calls_per_disease
    /\ \E q \in SampleSymptoms(PresentSymptoms(symptom_df, CurrentDiseases[d_idx]),
                               spec.symptoms_per_call) :
          /\ q # <<>>
          /\ sampled' = q
    /\ fails_left' = n
    /\ fails_script' = n
    /\ content' = text
    /\ delay' = spec.delay_seconds
    /\ attempt' = 1
    /\ provider_calls' = 0
    /\ waits' = <<>>
    /\ exhausted' = FALSE
    /\ units_started' = units_started + 1
    /\ gpc' = "attempt"
    /\ UNCHANGED <<spec, symptom_df, d_idx, unit, result, outputs, all_rows, out_csv,
                   g_returned, g_error, units_exhausted, units_falsy>>
    /\ UNCHANGED out_prior
    /\ UNCHANGED <<ttsVars, inferVars, toolVars, unitVars>>

\* Variant: range(1, max_retries), one attempt short.
AttemptsAllowed_OffByOne(k, max_retries) == k < max_retries

\* Line 144: for attempt in range(1, max_retries + 1)
AttemptsAllowed(k, max_retries) == k <= max_retries

\* Lines 145-152: the provider answers; its text is returned.
AttemptSucceeds ==
    /\ gpc = "attempt"
    /\ AttemptsAllowed(attempt, spec.max_retries)
    /\ fails_left = 0
    /\ provider_calls' = provider_calls + 1
    /\ result' = content
    /\ units_falsy' = units_falsy + (IF TruthyStr(content) THEN 0 ELSE 1)
    /\ gpc' = "got_result"
    /\ UNCHANGED <<spec, symptom_df, d_idx, unit, sampled, attempt, delay, fails_left,
                   content, outputs, all_rows, out_csv, g_returned, g_error,
                   fails_script, waits, exhausted, units_started, units_exhausted>>
    /\ UNCHANGED out_prior
    /\ UNCHANGED <<ttsVars, inferVars, toolVars, unitVars>>

\* Line 157: the condition under which a failed attempt is followed by a sleep.
SleepsAfterFailure(k, max_retries) == k < max_retries

\* Variant: delay += retry_backoff
NextDelay_Additive(d, backoff) == d + backoff

\* Line 159: delay *= retry_backoff
NextDelay(d, backoff) == d * backoff

\* Lines 153-159: the provider call raises; sleep and raise the delay unless
\* this was the last attempt.
AttemptFails ==
    /\ gpc = "attempt"
    /\ AttemptsAllowed(attempt, spec.max_retries)
    /\ fails_left > 0
    /\ provider_calls' = provider_calls + 1
    /\ fails_left' = fails_left - 1
    /\ IF SleepsAfterFailure(attempt, spec.max_retries)
       THEN /\ waits' = Append(waits, delay)
            /\ delay' = NextDelay(delay, spec.retry_backoff)
       ELSE UNCHANGED <<waits, delay>>
    /\ attempt' = attempt + 1
    /\ UNCHANGED <<gpc, spec, symptom_df, d_idx, unit, sampled, content, result,
                   outputs, all_rows, out_csv, g_returned, g_error, fails_script,
                   exhausted, units_started, units_exhausted, units_falsy>>
    /\ UNCHANGED out_prior
    /\ UNCHANGED <<ttsVars, inferVars, toolVars, unitVars>>

\* Lines 161-163: the loop is over without an answer, None is returned.
GiveUp ==
    /\ gpc = "attempt"
    /\ ~AttemptsAllowed(attempt, spec.max_retries)
    /\ result' = NoneStr
    /\ exhausted' = TRUE
    /\ units_exhausted' = units_exhausted + 1
    /\ gpc' = "got_result"
    /\ UNCHANGED <<spec, symptom_df, d_idx, unit, sampled, attempt, delay, fails_left,
                   content, outputs, all_rows, out_csv, g_returned, g_error,
                   fails_script, provider_calls, waits, units_started, units_falsy>>
    /\ UNCHANGED out_prior
    /\ UNCHANGED <<ttsVars, inferVars, toolVars, unitVars>>

\* Lines 195-199: the record of a unit.
Record(disease, symptoms, text) ==
    [disease |-> disease, symptoms_used |-> Join(symptoms),
     generated_call |-> Strip(text)]

\* Variant: the result is recorded whatever it is.
KeepsResult_Always(r) == TRUE

\* Line 194: if result:
KeepsResult(r) == TruthyStr(r)

\* Lines 194-203: a truthy result is recorded and appended to the CSV at once;
\* then the pacing sleep, and the next iteration.
HandleResult ==
    /\ gpc = "got_result"
    /\ IF KeepsResult(result)
       THEN LET rec == Record(CurrentDiseases[d_idx], sampled, result)
            IN /\ outputs' = Append(outputs, rec)
               /\ out_csv' = Append(out_csv, rec)
       ELSE UNCHANGED <<outputs, out_csv>>
    /\ unit' = unit + 1
    /\ gpc' = "unit"
    /\ UNCHANGED <<spec, symptom_df, d_idx, sampled, attempt, delay, fails_left,
                   content, result, all_rows, g_returned, g_error, fails_script,
                   provider_calls, waits, exhausted, units_started, units_exhausted,
                   units_falsy>>
    /\ UNCHANGED out_prior
    /\ UNCHANGED <<ttsVars, inferVars, toolVars, unitVars>>

\* Line 204 and 216-217: generate_for_disease returns, run_all extends all_rows.
ReturnOutputs ==
    /\ gpc = "unit"
    /\ unit > spec.num_calls_per_disease
    /\ all_rows' = all_rows \o outputs
    /\ d_idx' = d_idx + 1
    /\ gpc' = "disease"
    /\ UNCHANGED <<spec, symptom_df, unit, sampled, attempt, delay, fails_left,
                   content, result, outputs, out_csv, g_returned, g_error,
                   fails_script, provider_calls, waits, exhausted, units_started,
                   units_exhausted, units_falsy>>
    /\ UNCHANGED out_prior
    /\ UNCHANGED <<ttsVars, inferVars, toolVars, unitVars>>

\* Lines 219-221: every disease is done, run_all returns all_rows.
FinishRun ==
    /\ gpc = "disease"
    /\ d_idx > Len(CurrentDiseases)
    /\ g_returned' = all_rows
    /\ gpc' = "g_done"
    /\ UNCHANGED <<spec, symptom_df, d_idx, unit, sampled, attempt, delay, fails_left,
                   content, result, outputs, all_rows, out_csv, g_error, fails_script,
                   provider_calls, waits, exhausted, units_started, units_exhausted,
                   units_falsy>>
    /\ UNCHANGED out_prior
    /\ UNCHANGED <<ttsVars, inferVars, toolVars, unitVars>>

GptNext ==
    \/ RunAllBegin
    \/ SkipDisease
    \/ EnterDisease
    \/ SkipUnit
    \/ \E n \in 0..MaxFails, text \in Contents : CallGptBegin(n, text)
    \/ AttemptSucceeds
    \/ AttemptFails
    \/ GiveUp
    \/ HandleResult
    \/ ReturnOutputs
    \/ FinishRun

\* ======================================================================
\* The text-column step of synthesize_csv (lines 146-152), taken alone
\* ======================================================================

\* Largest number of columns of a header.
MaxHeaderLen == 3

ColumnNames == Range(TextCandidates) \cup {"id", "notes"}

\* Headers: column names are pairwise distinct, in any order.
HeaderSeqs ==
    { h \in SeqsUpTo(ColumnNames, MaxHeaderLen) :
        \A i, j \in 1..Len(h) : i # j => h[i] # h[j] }

ColArgs == {None, ""} \cup ColumnNames

InferIdle ==
    /\ h_pc = "h_idle"
    /\ h_columns = <<>>
    /\ h_arg = None
    /\ h_text_col = None

InferInit ==
    /\ h_pc = "h_start"
    /\ h_columns \in HeaderSeqs
    /\ h_arg \in ColArgs
    /\ h_text_col = None

\* Lines 146-152, a text column is found.
ResolveTextColumn ==
    /\ h_pc = "h_start"
    /\ ~TextColMissing(InferTextCol(h_arg, h_columns), h_columns)
    /\ h_text_col' = InferTextCol(h_arg, h_columns)
    /\ h_pc' = "h_resolved"
    /\ UNCHANGED <<h_columns, h_arg>>
    /\ UNCHANGED <<ttsVars, gptVars, toolVars, unitVars>>

\* Lines 146-152, no text column: ValueError.
RaiseNoTextColumn ==
    /\ h_pc = "h_start"
    /\ TextColMissing(InferTextCol(h_arg, h_columns), h_columns)
    /\ h_text_col' = InferTextCol(h_arg, h_columns)
    /\ h_pc' = "h_raised"
    /\ UNCHANGED <<h_columns, h_arg>>
    /\ UNCHANGED <<ttsVars, gptVars, toolVars, unitVars>>

InferNext ==
    \/ ResolveTextColumn
    \/ RaiseNoTextColumn

\* ======================================================================
\* The command-line tool (scripts/tts/tts_elevenlabs.py)
\* ======================================================================

\* A key a voice descriptor does not have (the name is optional).
Missing == "Missing"

\* str() of a null voice_id cell: a non-empty string that names no voice.
NullIdText == "str(null)"

\* Order of the strings used as names and as voice ids (Python's str order).
StringOrder == <<"V1", "V2", "V3", "n0", "n1", "n2">>

Rank(x) == CHOOSE j \in 1..Len(StringOrder) : StringOrder[j] = x

\* A null or missing cell is the missing value of the DataFrame column.
IsNA(x) == x = None \/ x = Missing

\* Order of one sort key under sort_values(na_position="last").
KeyLess(x, y) == IF IsNA(x) THEN FALSE ELSE IF IsNA(y) THEN TRUE ELSE Rank(x) < Rank(y)

KeySame(x, y) == (IsNA(x) /\ IsNA(y)) \/ x = y

\* Row a sorts strictly before row b by ["name", "voice_id"].
SortsBefore(a, b) ==
    \/ KeyLess(a.name, b.name)
    \/ KeySame(a.name, b.name) /\ KeyLess(a.voice_id, b.voice_id)

\* Position of the first row of df.sort_values(by=["name", "voice_id"]); rows
\* with equal keys keep their order.
FirstSorted(voices) ==
    CHOOSE i \in 1..Len(voices) :
        \A j \in 1..Len(voices) :
            /\ ~SortsBefore(voices[j], voices[i])
            /\ (j < i => SortsBefore(voices[i], voices[j]))

StrOfId(v) == IF v = None THEN NullIdText ELSE v

\* "name" in df.columns: some descriptor has the key.
HasNameColumn(voices) == \E i \in 1..Len(voices) : voices[i].name # Missing

\* _auto_pick_existing_voice (lines 97-112): the value it returns for an
\* outcome of GET /voices and the voice list in the answer.
AutoPickExistingVoice(outcome, voices) ==
    IF outcome # "200" THEN None
    ELSE IF voices # <<>> /\ PoolOf(voices) # <<>>
         THEN IF HasNameColumn(voices)
              THEN StrOfId(voices[FirstSorted(voices)].voice_id)
              ELSE StrOfId(voices[1].voice_id)
         ELSE None

\* --model-id default of the csv command (line 79).
CliDefaultModel ==
    <<"e", "l", "e", "v", "e", "n", "_", "m", "u", "l", "t", "i", "l", "i", "n",
      "g", "u", "a", "l", "_", "v", "3">>

\* Parsed arguments of the csv command: --voice-id, --random-voice, --noise
\* (not given, an existing file, a path that does not exist).
CliArgs == [voice_id : {None, "V1"}, random_voice : BOOLEAN,
            noise : {None, "noise.wav", "missing.wav"}]

NoArgs == [voice_id |-> None, random_voice |-> FALSE, noise |-> None]

\* noise.exists() of line 202.
NoiseExists(path) == path = "noise.wav"

\* Input files of the command: an id column and a text column.
CliCsvFiles ==
    { [header |-> <<"id", "text">>, lines |-> ls] :
        ls \in SeqsUpTo(Lines(<<"id", "text">>), MaxRows) }

\* Line 208: speech.with_name(speech.stem + "_mix.mp3") for a path ending
\* in ".mp3".
MixedPath(path) ==
    SubSeq(path, 1, Len(path) - 4) \o <<"_", "m", "i", "x", ".", "m", "p", "3">>

CliInit ==
    /\ cli_pc = "main"
    /\ args = NoArgs
    /\ cli_fixed = None
    /\ cli_error = None
    /\ mix_idx = 0
    /\ mixed_rows = <<>>
    /\ out_df = NotReturned
    /\ mix_calls = <<>>
    /\ mix_failed = {}

\* cmd_csv lines 179-181 and _resolve_voice_id lines 116-117: the fixed voice
\* is resolved only when --random-voice is not given.
CmdCsvResolve(a) ==
    /\ cli_pc = "main"
    /\ pc = "idle"
    /\ args' = a
    /\ IF a.random_voice
       THEN cli_fixed' = None /\ cli_pc' = "call"
       ELSE IF Truthy(a.voice_id)
       THEN cli_fixed' = a.voice_id /\ cli_pc' = "call"
       ELSE cli_fixed' = None /\ cli_pc' = "auto_pick"
    /\ UNCHANGED <<cli_error, mix_idx, mixed_rows, out_df, mix_calls, mix_failed>>
    /\ UNCHANGED <<ttsVars, gptVars, inferVars, pickVars, parVars, unitVars>>

\* _resolve_voice_id lines 120-128: a voice of the account is picked, or the
\* command exits.
AutoPickVoice(outcome, voices) ==
    /\ cli_pc = "auto_pick"
    /\ voice_fetches' = voice_fetches + 1
    /\ auth_tails' = IF outcome = "401" THEN auth_tails \cup {KeyTail(api_key)}
                                        ELSE auth_tails
    /\ LET picked == AutoPickExistingVoice(outcome, voices)
       IN IF ~Truthy(picked)
          THEN cli_error' = "SystemExit:NoVoices" /\ cli_pc' = "exit"
               /\ cli_fixed' = cli_fixed
          ELSE cli_error' = cli_error /\ cli_pc' = "call" /\ cli_fixed' = picked
    /\ UNCHANGED <<args, mix_idx, mixed_rows, out_df, mix_calls, mix_failed>>
    /\ UNCHANGED <<pc, api_key, csv, df, text_col, id_col, fixed_voice_id, random_voice,
                   pool, idx, rows, returned, error, inflight, calls, failed, entry_rows,
                   skipped, files, sleeps, model_id>>
    /\ UNCHANGED <<gptVars, inferVars, pickVars, parVars, unitVars>>

\* cmd_csv lines 183-197: synthesize_csv is called with the resolved voice.
CmdCsvCallSynthesize ==
    /\ cli_pc = "call"
    /\ pc = "idle"
    /\ \E file \in CliCsvFiles :
          SynthesizeCsvSetup(file, None, cli_fixed, args.random_voice, CliDefaultModel)

\* cmd_csv lines 200-205: the batch has returned its ledger.
MixBegin ==
    /\ cli_pc = "call"
    /\ pc = "done"
    /\ out_df' = returned
    /\ IF ~Truthy(args.noise)
       THEN cli_pc' = "cli_done" /\ UNCHANGED <<cli_error, mix_idx, mixed_rows>>
       ELSE IF ~NoiseExists(args.noise)
       THEN /\ cli_pc' = "exit"
            /\ cli_error' = "SystemExit:NoNoise"
            /\ UNCHANGED <<mix_idx, mixed_rows>>
       ELSE /\ cli_pc' = "mix"
            /\ mix_idx' = 1
            /\ mixed_rows' = <<>>
            /\ cli_error' = cli_error
    /\ UNCHANGED <<args, cli_fixed, mix_calls, mix_failed>>
    /\ UNCHANGED <<ttsVars, gptVars, inferVars, pickVars, parVars, unitVars>>

\* cmd_csv lines 206-214: one clip of the ledger is mixed; a failure of
\* ffmpeg is caught and the clip gets no mixed entry.
MixClip(ok) ==
    /\ cli_pc = "mix"
    /\ mix_idx <= Len(out_df)
    /\ LET r == out_df[mix_idx]
       IN /\ mix_calls' = Append(mix_calls, r.path)
          /\ IF ok
             THEN /\ files' = files \cup {MixedPath(r.path)}
                  /\ mixed_rows' = Append(mixed_rows, [id |-> r.id, voice_id |-> r.voice_id,
                                                       path |-> MixedPath(r.path)])
                  /\ mix_failed' = mix_failed
             ELSE /\ mix_failed' = mix_failed \cup {mix_idx}
                  /\ UNCHANGED <<mixed_rows, files>>
    /\ mix_idx' = mix_idx + 1
    /\ UNCHANGED <<cli_pc, args, cli_fixed, cli_error, out_df>>
    /\ UNCHANGED <<pc, api_key, csv, df, text_col, id_col, fixed_voice_id, random_voice,
                   pool, idx, rows, returned, error, inflight, calls, failed, entry_rows,
                   skipped, voice_fetches, sleeps, model_id, auth_tails>>
    /\ UNCHANGED <<gptVars, inferVars, pickVars, parVars, unitVars>>

\* cmd_csv lines 215-224: the mixed rows replace the ledger when there are any.
MixEnd ==
    /\ cli_pc = "mix"
    /\ mix_idx > Len(out_df)
    /\ out_df' = IF mixed_rows # <<>> THEN mixed_rows ELSE out_df
    /\ cli_pc' = "cli_done"
    /\ UNCHANGED <<args, cli_fixed, cli_error, mix_idx, mixed_rows, mix_calls, mix_failed>>
    /\ UNCHANGED <<ttsVars, gptVars, inferVars, pickVars, parVars, unitVars>>

\* main() with the csv command: the client is constructed, the command runs.
CliNext ==
    \/ \E arg \in KeyArgs, env \in KeyEnvs : Construct(arg, env)
    \/ \E a \in CliArgs : CmdCsvResolve(a)
    \/ \E outcome \in HttpOutcomes, voices \in VoiceLists : AutoPickVoice(outcome, voices)
    \/ CmdCsvCallSynthesize
    \/ \E outcome \in HttpOutcomes, voices \in VoiceLists :
          ListVoicesForPool(outcome, voices)
    \/ SkipEmptyRow
    \/ \E v \in VoiceIds \cup {NullIdText} : SendRequest(v)
    \/ \E outcome \in HttpOutcomes : ReceiveResponse(outcome)
    \/ Sleep
    \/ ReturnLedger
    \/ MixBegin
    \/ \E ok \in BOOLEAN : MixClip(ok)
    \/ MixEnd

\* ======================================================================
\* _auto_pick_existing_voice (lines 97-112), taken alone
\* ======================================================================

\* Largest number of voices the provider reports.
MaxVoices == 2

\* Voice descriptors: an id, and a name or none.
Descriptors == { Voice(v, n) : v \in {"V1", "V2", "V3"}, n \in {Missing, "n1", "n2"} }

\* Voice lists: the ids of an account are pairwise distinct.
PickVoiceLists ==
    { l \in SeqsUpTo(Descriptors, MaxVoices) :
        \A i, j \in 1..Len(l) : i # j => l[i].voice_id # l[j].voice_id }

PickIdle ==
    /\ k_pc = "k_idle"
    /\ k_outcome = "200"
    /\ k_voices = <<>>
    /\ k_picked = None

PickInit ==
    /\ k_pc = "k_start"
    /\ k_outcome \in HttpOutcomes
    /\ k_voices \in PickVoiceLists
    /\ k_picked = None

\* Lines 98-102: listing the voices failed, None is returned.
AutoPickListFails ==
    /\ k_pc = "k_start"
    /\ k_outcome # "200"
    /\ k_picked' = AutoPickExistingVoice(k_outcome, k_voices)
    /\ k_pc' = "k_returned"
    /\ UNCHANGED <<k_outcome, k_voices>>
    /\ UNCHANGED <<ttsVars, gptVars, inferVars, cliVars, parVars, unitVars>>

\* Lines 104-112: the voices are listed, one is returned (None if there is none).
AutoPickReturns ==
    /\ k_pc = "k_start"
    /\ k_outcome = "200"
    /\ k_picked' = AutoPickExistingVoice(k_outcome, k_voices)
    /\ k_pc' = "k_returned"
    /\ UNCHANGED <<k_outcome, k_voices>>
    /\ UNCHANGED <<ttsVars, gptVars, inferVars, cliVars, parVars, unitVars>>

PickNext ==
    \/ AutoPickListFails
    \/ AutoPickReturns

\* ======================================================================
\* The bounded-parallel script (Generate_Data/scripts/tts/elevenlabs_generate.py)
\* ======================================================================

\* Largest number of data rows of its input CSV.
MaxParRows == 4

\* Line 64: ThreadPoolExecutor(max_workers=3)
max_workers == 3

\* Rows as csv.reader yields them: the header, rows of three cells, and
\* malformed rows of two cells.
HeaderRow == <<"disease", "symptoms_used", "generated_call">>
DataRows == { <<"flu", "s1", "help">>, <<"flu", "s1">> }

\* Input files: empty, or a header followed by data rows.
ParInputs == {<<>>} \cup { <<HeaderRow>> \o ds : ds \in SeqsUpTo(DataRows, MaxParRows) }

\* Line 46: f"audio_{enum+1}.mp3"
AudioName(enum) == <<"a", "u", "d", "i", "o", "_">> \o Dec(enum + 1) \o <<".", "m", "p", "3">>

ParInit ==
    /\ par_pc = "p_idle"
    /\ in_rows = <<>>
    /\ next_enum = 0
    /\ queue = <<>>
    /\ running = {}
    /\ results = <<>>
    /\ collected = {}
    /\ submits = <<>>
    /\ converts = EmptyBag
    /\ audio_files = {}
    /\ output_file = NotReturned

\* Lines 56-65: the input is read whole, output.csv is opened for writing
\* (and so emptied), the pool is created.
ParStart(input) ==
    /\ par_pc = "p_idle"
    /\ in_rows' = input
    /\ output_file' = <<>>
    /\ next_enum' = 0
    /\ par_pc' = "submit"
    /\ UNCHANGED <<queue, running, results, collected, submits, converts,
                   audio_files>>
    /\ UNCHANGED <<ttsVars, gptVars, inferVars, cliVars, pickVars, unitVars>>

ParBegin ==
    /\ par_pc = "p_idle"
    /\ \E input \in ParInputs : ParStart(input)

\* Lines 66-68: the first row is the header, nothing is submitted for it.
SkipHeaderRow ==
    /\ par_pc = "submit"
    /\ next_enum < Len(in_rows)
    /\ next_enum = 0
    /\ next_enum' = next_enum + 1
    /\ UNCHANGED <<par_pc, in_rows, queue, running, results, collected,
                   submits, converts, audio_files, output_file>>
    /\ UNCHANGED <<ttsVars, gptVars, inferVars, cliVars, pickVars, unitVars>>

\* Lines 69-70: executor.submit(process_row, enum, row, ...)
SubmitRow ==
    /\ par_pc = "submit"
    /\ next_enum < Len(in_rows)
    /\ next_enum # 0
    /\ queue' = Append(queue, next_enum)
    /\ submits' = Append(submits, next_enum)
    /\ next_enum' = next_enum + 1
    /\ UNCHANGED <<par_pc, in_rows, running, results, collected,
                   converts, audio_files, output_file>>
    /\ UNCHANGED <<ttsVars, gptVars, inferVars, cliVars, pickVars, unitVars>>

\* Line 73: every row is submitted, as_completed(futures) starts.
BeginCollect ==
    /\ par_pc = "submit"
    /\ next_enum >= Len(in_rows)
    /\ par_pc' = "collect"
    /\ UNCHANGED <<in_rows, next_enum, queue, running, results, collected,
                   submits, converts, audio_files, output_file>>
    /\ UNCHANGED <<ttsVars, gptVars, inferVars, cliVars, pickVars, unitVars>>

\* Variant: a thread for every submitted row.
WorkerFree_Unbounded(busy) == TRUE

\* The pool has a thread for the next work item.
WorkerFree(busy) == busy < max_workers

\* A worker thread takes the oldest queued work item.
WorkerTake ==
    /\ queue # <<>>
    /\ WorkerFree(Cardinality(running))
    /\ running' = running \cup {[enum |-> Head(queue), stage |-> "start"]}
    /\ queue' = Tail(queue)
    /\ UNCHANGED <<par_pc, in_rows, next_enum, results, collected, submits,
                   converts, audio_files, output_file>>
    /\ UNCHANGED <<ttsVars, gptVars, inferVars, cliVars, pickVars, unitVars>>

\* process_row lines 35-37: a row that has not three cells is refused.
WorkerRejectRow(w) ==
    /\ w \in running
    /\ w.stage = "start"
    /\ Len(in_rows[w.enum + 1]) # 3
    /\ running' = running \ {w}
    /\ results' = Append(results, [enum |-> w.enum, success |-> FALSE])
    /\ UNCHANGED <<par_pc, in_rows, next_enum, queue, collected, submits, converts,
                   audio_files, output_file>>
    /\ UNCHANGED <<ttsVars, gptVars, inferVars, cliVars, pickVars, unitVars>>

\* process_row lines 39-44: the conversion request of a row is sent.
WorkerConvert(w) ==
    /\ w \in running
    /\ w.stage = "start"
    /\ Len(in_rows[w.enum + 1]) = 3
    /\ running' = (running \ {w}) \cup {[enum |-> w.enum, stage |-> "converting"]}
    /\ converts' = converts (+) SetToBag({w.enum})
    /\ UNCHANGED <<par_pc, in_rows, next_enum, queue, results, collected,
                   submits, audio_files, output_file>>
    /\ UNCHANGED <<ttsVars, gptVars, inferVars, cliVars, pickVars, unitVars>>

\* process_row lines 46-53: the audio is written and (enum, True) returned, or
\* the exception is caught and (enum, False) returned.
WorkerFinish(w, ok) ==
    /\ w \in running
    /\ w.stage = "converting"
    /\ running' = running \ {w}
    /\ results' = Append(results, [enum |-> w.enum, success |-> ok])
    /\ audio_files' = IF ok THEN audio_files \cup {AudioName(w.enum)} ELSE audio_files
    /\ UNCHANGED <<par_pc, in_rows, next_enum, queue, collected, submits, converts,
                   output_file>>
    /\ UNCHANGED <<ttsVars, gptVars, inferVars, cliVars, pickVars, unitVars>>

\* The rows whose future has finished.
Finished == {results[k].enum : k \in 1..Len(results)}

\* Lines 73-74: as_completed yields a finished future, its result is read
\* (and dropped: nothing is written through writer).
CollectResult(e) ==
    /\ par_pc = "collect"
    /\ e \in Finished
    /\ e \notin collected
    /\ collected' = collected \cup {e}
    /\ UNCHANGED <<par_pc, in_rows, next_enum, queue, running, results,
                   submits, converts, audio_files, output_file>>
    /\ UNCHANGED <<ttsVars, gptVars, inferVars, cliVars, pickVars, unitVars>>

\* Lines 73-76: every future has been yielded; the pool and the files are
\* closed and the script ends.
ParFinish ==
    /\ par_pc = "collect"
    /\ collected = Range(submits)
    /\ par_pc' = "p_done"
    /\ UNCHANGED <<in_rows, next_enum, queue, running, results, collected,
                   submits, converts, audio_files, output_file>>
    /\ UNCHANGED <<ttsVars, gptVars, inferVars, cliVars, pickVars, unitVars>>

ParNext ==
    \/ ParBegin
    \/ SkipHeaderRow
    \/ SubmitRow
    \/ BeginCollect
    \/ WorkerTake
    \/ \E w \in running : WorkerRejectRow(w)
    \/ \E w \in running : WorkerConvert(w)
    \/ \E w \in running, ok \in BOOLEAN : WorkerFinish(w, ok)
    \/ \E e \in 1..MaxParRows : CollectResult(e)
    \/ ParFinish

\* ======================================================================
\* synthesize_csv on texts with bracket annotations
\* ======================================================================

\* Text cells: both brackets, no bracket, both brackets in the other order,
\* an opening bracket alone, whitespace.
TaggedTexts == {<<"[", "g", "]">>, <<"h", "i">>, <<"]", "[">>, <<"[", "h">>, <<" ">>}

TaggedLines == { <<i, t>> : i \in RawIds, t \in TaggedTexts }

TaggedCsvFiles ==
    { [header |-> <<"id", "text">>, lines |-> ls] : ls \in SeqsUpTo(TaggedLines, MaxRows) }

\* synthesize_csv is called with a fixed voice and some model_id.
SynthesizeCsvTaggedBegin ==
    /\ pc = "idle"
    /\ \E file \in TaggedCsvFiles, mid \in ModelIds :
          SynthesizeCsvSetup(file, None, "V1", FALSE, mid)

TagNext ==
    \/ \E arg \in KeyArgs, env \in KeyEnvs : Construct(arg, env)
    \/ SynthesizeCsvTaggedBegin
    \/ SkipEmptyRow
    \/ \E v \in VoiceIds : SendRequest(v)
    \/ \E outcome \in HttpOutcomes : ReceiveResponse(outcome)
    \/ Sleep
    \/ ReturnLedger

\* ======================================================================
\* diseases() of the two generators, taken alone
\* ======================================================================

\* Largest number of rows of the symptom matrix.
MaxDiseases == 4

\* monologue_generator.py line 19: list(self.symptom_df.index)[:3]
MinimalCap == 3

\* Index labels; an index may repeat a label.
DiseaseLabels == {"flu", "cold"}

Indexes == SeqsUpTo(DiseaseLabels, MaxDiseases)

\* max_diseases: unset, or an integer (--max-diseases takes any int).
CapArgs == {Unset} \cup { Some(n) : n \in (-1)..(MaxDiseases + 1) }

CapIdle ==
    /\ q_pc = "q_idle"
    /\ q_class = "full"
    /\ q_index = <<>>
    /\ q_cap = Unset
    /\ q_result = <<>>

CapInit ==
    /\ q_pc = "q_start"
    /\ q_class \in {"minimal", "full"}
    /\ q_index \in Indexes
    /\ q_cap \in (IF q_class = "full" THEN CapArgs ELSE {Unset})
    /\ q_result = <<>>

\* monologue_generator.py lines 18-19.
DiseasesMinimal ==
    /\ q_pc = "q_start"
    /\ q_class = "minimal"
    /\ q_result' = Take(q_index, MinimalCap)
    /\ q_pc' = "q_returned"
    /\ UNCHANGED <<q_class, q_index, q_cap>>
    /\ UNCHANGED <<ttsVars, gptVars, inferVars, toolVars, textVars>>

\* generate_with_openai.py lines 126-131.
DiseasesFull ==
    /\ q_pc = "q_start"
    /\ q_class = "full"
    /\ q_result' = Diseases(Matrix(q_index, <<>>), q_cap)
    /\ q_pc' = "q_returned"
    /\ UNCHANGED <<q_class, q_index, q_cap>>
    /\ UNCHANGED <<ttsVars, gptVars, inferVars, toolVars, textVars>>

CapNext ==
    \/ DiseasesMinimal
    \/ DiseasesFull

\* ======================================================================
\* synthesize_text taken alone, with the disk it writes to
\* ======================================================================

\* Largest number of chunks iter_content yields.
MaxChunks == 2

\* The destination: whether its parent directory exists, and the file.
NoFile == [exists |-> FALSE, data |-> <<>>]

FileWith(data) == [exists |-> TRUE, data |-> data]

PriorDisks ==
    { [dir |-> FALSE, file |-> NoFile],
      [dir |-> TRUE, file |-> NoFile],
      [dir |-> TRUE, file |-> FileWith(<<"o", "l", "d">>)] }

\* Status codes of the provider's response.
StatusCodes == {"200", "204", "401", "500"}

\* A chunk of the streamed body; iter_content may yield an empty chunk.
Chunks == {"", "a", "b"}

Bodies == SeqsUpTo(Chunks, MaxChunks)

TextIdle ==
    /\ t_pc = "t_idle"
    /\ t_prior = [dir |-> FALSE, file |-> NoFile]
    /\ t_disk = t_prior
    /\ t_outcome = None
    /\ t_body = <<>>
    /\ t_error = None
    /\ t_result = None

TextInit ==
    /\ t_pc = "t_start"
    /\ t_prior \in PriorDisks
    /\ t_disk = t_prior
    /\ t_outcome = None
    /\ t_body = <<>>
    /\ t_error = None
    /\ t_result = None

\* requests.post raises (connection error, timeout).
PostRaises ==
    /\ t_pc = "t_start"
    /\ t_outcome' = "raise"
    /\ t_error' = "RequestException"
    /\ t_pc' = "t_raised"
    /\ UNCHANGED <<t_prior, t_disk, t_body, t_result>>
    /\ UNCHANGED <<ttsVars, gptVars, inferVars, toolVars, capVars>>

\* requests.post returns a response whose body is still to be streamed.
PostReturns ==
    /\ t_pc = "t_start"
    /\ \E status \in StatusCodes, body \in Bodies :
          /\ t_outcome' = status
          /\ t_body' = body
    /\ t_pc' = "t_responded"
    /\ UNCHANGED <<t_prior, t_disk, t_error, t_result>>
    /\ UNCHANGED <<ttsVars, gptVars, inferVars, toolVars, capVars>>

\* Variant: every 2xx status counts as a success.
IsSuccess_Any2xx(status) == status \in {"200", "204"}

\* r.status_code != 200 is the failure test.
IsSuccess(status) == status = "200"

RaiseUnauthorized ==
    /\ t_pc = "t_responded"
    /\ t_outcome = "401"
    /\ t_error' = "RuntimeError:401"
    /\ t_pc' = "t_raised"
    /\ UNCHANGED <<t_prior, t_disk, t_outcome, t_body, t_result>>
    /\ UNCHANGED <<ttsVars, gptVars, inferVars, toolVars, capVars>>

RaiseFailed ==
    /\ t_pc = "t_responded"
    /\ t_outcome # "401"
    /\ ~IsSuccess(t_outcome)
    /\ t_error' = "RuntimeError:TTS failed"
    /\ t_pc' = "t_raised"
    /\ UNCHANGED <<t_prior, t_disk, t_outcome, t_body, t_result>>
    /\ UNCHANGED <<ttsVars, gptVars, inferVars, toolVars, capVars>>

\* mkdir(parents=True, exist_ok=True), then open(outp, "wb"), which creates
\* the file or truncates the one that is there.
OpenDestination ==
    /\ t_pc = "t_responded"
    /\ t_outcome # "401"
    /\ IsSuccess(t_outcome)
    /\ t_disk' = [dir |-> TRUE, file |-> FileWith(<<>>)]
    /\ t_pc' = "t_writing"
    /\ UNCHANGED <<t_prior, t_outcome, t_body, t_error, t_result>>
    /\ UNCHANGED <<ttsVars, gptVars, inferVars, toolVars, capVars>>

\* One turn of the loop: an empty chunk is not written.
WriteChunk ==
    /\ t_pc = "t_writing"
    /\ t_body # <<>>
    /\ t_disk' = IF Head(t_body) # ""
                  THEN [t_disk EXCEPT !.file.data = Append(@, Head(t_body))]
                  ELSE t_disk
    /\ t_body' = Tail(t_body)
    /\ UNCHANGED <<t_pc, t_prior, t_outcome, t_error, t_result>>
    /\ UNCHANGED <<ttsVars, gptVars, inferVars, toolVars, capVars>>

\* iter_content raises while the body is streamed; the with block closes
\* the file with what was written so far.
StreamRaises ==
    /\ t_pc = "t_writing"
    /\ t_body # <<>>
    /\ t_error' = "RequestException"
    /\ t_pc' = "t_raised"
    /\ UNCHANGED <<t_prior, t_disk, t_outcome, t_body, t_result>>
    /\ UNCHANGED <<ttsVars, gptVars, inferVars, toolVars, capVars>>

ReturnSavedPath ==
    /\ t_pc = "t_writing"
    /\ t_body = <<>>
    /\ t_result' = "outp"
    /\ t_pc' = "t_returned"
    /\ UNCHANGED <<t_prior, t_disk, t_outcome, t_body, t_error>>
    /\ UNCHANGED <<ttsVars, gptVars, inferVars, toolVars, capVars>>

TextNext ==
    \/ PostRaises
    \/ PostReturns
    \/ RaiseUnauthorized
    \/ RaiseFailed
    \/ OpenDestination
    \/ WriteChunk
    \/ StreamRaises
    \/ ReturnSavedPath

\* ======================================================================
\* Specifications
\* ======================================================================
vars == <<ttsVars, gptVars, inferVars, toolVars, unitVars>>

\* The text-to-speech batch: the generator stays idle.
Init == TtsInit /\ GptInit /\ InferIdle /\ CliInit /\ PickIdle /\ ParInit /\ CapIdle /\ TextIdle

Next ==
    \/ \E arg \in KeyArgs, env \in KeyEnvs : Construct(arg, env)
    \/ SynthesizeCsvBegin
    \/ \E outcome \in HttpOutcomes, voices \in VoiceLists :
          ListVoicesForPool(outcome, voices)
    \/ SkipEmptyRow
    \/ RaiseNoVoice
    \/ \E v \in VoiceIds \cup {None} : SendRequest(v)
    \/ \E outcome \in HttpOutcomes : ReceiveResponse(outcome)
    \/ Sleep
    \/ ReturnLedger

Spec == Init /\ [][Next]_vars

\* The monologue generator: the text-to-speech client stays unconstructed.
GptSpec == Init /\ [][GptNext]_vars

\* The text-column step on every header and argument.
InferSpecInit ==
    TtsInit /\ GptInit /\ InferInit /\ CliInit /\ PickIdle /\ ParInit /\ CapIdle /\ TextIdle

InferSpec == InferSpecInit /\ [][InferNext]_vars

\* The batch runs to its end: each step of the single-threaded program is
\* taken once it is enabled.
FairSpec == Spec /\ WF_vars(Next)

\* The batch on texts with bracket annotations, for every model_id.
TagSpec == Init /\ [][TagNext]_vars

\* The csv command of the command-line tool.
CliSpec == Init /\ [][CliNext]_vars

\* The voice auto-pick on every voice list.
PickSpecInit ==
    TtsInit /\ GptInit /\ InferIdle /\ CliInit /\ PickInit /\ ParInit /\ CapIdle /\ TextIdle

PickSpec == PickSpecInit /\ [][PickNext]_vars

\* The bounded-parallel script.
ParSpec == Init /\ [][ParNext]_vars

\* diseases() on every index and cap.
CapSpecInit ==
    TtsInit /\ GptInit /\ InferIdle /\ CliInit /\ PickIdle /\ ParInit /\ CapInit /\ TextIdle

CapSpec == CapSpecInit /\ [][CapNext]_vars

\* One call of synthesize_text on every prior disk.
TextSpecInit ==
    TtsInit /\ GptInit /\ InferIdle /\ CliInit /\ PickIdle /\ ParInit /\ CapIdle /\ TextInit

TextSpec == TextSpecInit /\ [][TextNext]_vars

\* ======================================================================
\* Properties of the text-to-speech batch (Spec, FairSpec)
\* ======================================================================

\* The row loop of synthesize_csv has been entered.
LoopEntered == idx >= 1

RowCount == Len(df.rows)

\* The text of row i as synthesize_csv is to pass it: the cell as a string,
\* without leading and trailing whitespace.
TrimmedText(i) == Strip(Str(df.rows[i][text_col]))

\* The text cell of row i is blank in the file, or holds only whitespace.
EmptyTextCell(i) ==
    \/ df.rows[i][text_col] = NaN
    \/ Strip(df.rows[i][text_col]) = <<>>

\* Number of synthesize_text invocations made for row i.
CallsFor(i) == Cardinality({k \in 1..Len(calls) : calls[k].idx = i})

\* Row i has been reached by the iterator and dealt with (or is being dealt with).
Reached(i) == i < idx \/ (i = idx /\ pc \in {"request", "sleep"})

\* C1: a row whose text cell is empty or whitespace-only (a blank cell of the
\* file included) is never passed to synthesize_text and has no ledger entry.
C1_EmptyTextNeverSynthesized ==
    LoopEntered =>
        \A i \in 1..RowCount :
            EmptyTextCell(i) => CallsFor(i) = 0 /\ i \notin Range(entry_rows)

\* C2: in sequential mode every reached row with non-empty trimmed text has
\* exactly one synthesize_text invocation, failed or not, carrying its trimmed
\* text, the path made of its id and its resolved voice; invocations follow row
\* order, at most one request is in flight, and at the end every row is reached.
C2_ExactlyOnceInOrder ==
    /\ ~LoopEntered => calls = <<>> /\ inflight = {}
    /\ LoopEntered =>
        /\ \A i \in 1..RowCount :
              CallsFor(i) = IF Reached(i) /\ TrimmedText(i) # <<>> /\ pc # "raised"
                            THEN 1 ELSE 0
        /\ \A k \in 1..Len(calls) :
              LET i == calls[k].idx
              IN /\ i \in 1..RowCount
                 /\ calls[k].text = TrimmedText(i)
                 /\ calls[k].output_path = Str(df.rows[i][id_col]) \o <<".", "m", "p", "3">>
                 /\ IF Truthy(fixed_voice_id)
                    THEN calls[k].voice_id = fixed_voice_id
                    ELSE random_voice /\ calls[k].voice_id \in Range(pool)
        /\ \A k, l \in 1..Len(calls) : k < l => calls[k].idx < calls[l].idx
        /\ Cardinality(inflight) <= 1
        /\ inflight \subseteq Range(calls)
        /\ pc = "done" => \A i \in 1..RowCount : Reached(i)

\* C2 witness: a finished batch of two invocations, the first of which failed
\* and was not repeated, the text of which was trimmed.
C2_Witness ==
    /\ pc = "done"
    /\ Len(calls) = 2
    /\ failed = {1}
    /\ calls[1].text # df.rows[1][text_col]

\* C3, state part: once a row has failed nothing is raised out of the batch, the
\* rows that succeeded have their ledger entries, and a finished batch has
\* attempted every row with text and returns the ledger.
C3_FailureIsContained ==
    failed # {} =>
        /\ pc # "raised"
        /\ error = None
        /\ Range(entry_rows) =
              {calls[k].idx : k \in 1..Len(calls)} \ (failed \cup {r.idx : r \in inflight})
        /\ Len(rows) = Len(entry_rows)
        /\ pc = "done" =>
              /\ returned = rows
              /\ \A i \in 1..RowCount : TrimmedText(i) # <<>> => CallsFor(i) = 1

\* C3: a synthesis failure on one row never aborts the batch: the error is
\* caught, the successes keep their entries, every later row is attempted, and
\* the batch terminates.
C3_FailureDoesNotAbort ==
    /\ []C3_FailureIsContained
    /\ [](failed # {} => <>(pc = "done"))

\* C3 witness: a finished batch whose first row failed and whose second row was
\* synthesized and is in the returned ledger.
C3_Witness ==
    /\ pc = "done"
    /\ failed = {1}
    /\ entry_rows = <<2>>
    /\ Len(returned) = 1

\* No fixed voice and no random selection: no voice can be resolved for a row.
NoVoiceConfig == ~Truthy(fixed_voice_id) /\ ~random_voice

\* C4 as stated: a row without a voice is skipped, so no exception escapes the
\* batch loop once it is entered.
C4_NoExceptionEscapesLoop == ~(LoopEntered /\ pc = "raised")

\* C4 as amended: the first row with text for which no voice can be resolved
\* raises ValueError out of the batch loop before any network call; no request
\* is sent for it or for any other row, nothing is written, no ledger is
\* returned and the rows after it are not processed; a batch without a voice
\* returns only if every row has empty text.
C4_NoVoiceRaises ==
    /\ (LoopEntered /\ NoVoiceConfig) =>
        /\ calls = <<>> /\ inflight = {} /\ files = {} /\ rows = <<>>
        /\ pc = "done" => \A i \in 1..RowCount : TrimmedText(i) = <<>>
        /\ \A i \in 1..RowCount : (i < idx => TrimmedText(i) = <<>> /\ i \in skipped)
    /\ error = "ValueError:NoVoice" =>
        /\ NoVoiceConfig
        /\ pc = "raised"
        /\ returned = NotReturned
        /\ idx \in 1..RowCount
        /\ TrimmedText(idx) # <<>>
    /\ (LoopEntered /\ pc = "raised") => error = "ValueError:NoVoice"

\* C4 witness: ValueError raised at the second row, after an empty first row.
C4_Witness ==
    /\ error = "ValueError:NoVoice"
    /\ idx = 2
    /\ skipped = {1}

ConfigErrors == {"RuntimeError:MissingKey", "ValueError:NoTextColumn",
                 "RuntimeError:NoVoices", "KeyError"}

\* C10: a missing credential, a missing text column and an empty voice pool
\* each raise before the row loop: the loop is entered only with a credential,
\* a text column of the header and (random selection) a non-empty pool, and
\* when one of these errors is raised no request was sent, no file written and
\* no ledger returned.
C10_ConfigErrorsPrecedeBatch ==
    /\ error \in ConfigErrors =>
        /\ pc = "raised"
        /\ ~LoopEntered
        /\ calls = <<>> /\ inflight = {} /\ files = {} /\ rows = <<>>
        /\ returned = NotReturned
    /\ (pc # "new" /\ api_key = <<>>) => error = "RuntimeError:MissingKey"
    /\ (csv # NoCsv /\ (text_col = None \/ text_col \notin Range(csv.header))) =>
          error = "ValueError:NoTextColumn"
    /\ LoopEntered =>
        /\ api_key # <<>>
        /\ text_col \in Range(csv.header)
        /\ random_voice => pool # <<>>

\* C10 witness: random selection with a pool that is empty after dropping the
\* null ids, on a file with a row to synthesize.
C10_Witness ==
    /\ error = "RuntimeError:NoVoices"
    /\ random_voice
    /\ RowCount = 2
    /\ df.rows[1][text_col] = <<" ", "a", " ">>

\* ======================================================================
\* Properties of the monologue generator (GptSpec)
\* ======================================================================

\* _call_gpt has returned to generate_for_disease.
CallReturned == gpc = "got_result"

\* C6: with a provider that fails N = fails_script times and then answers,
\* _call_gpt returns the answer after exactly N + 1 provider calls when
\* max_retries >= N + 1 (max_retries = N + 1 included), and returns None after
\* exactly max_retries calls when max_retries <= N (max_retries = N included);
\* no provider call follows the first answer.
C6_RetryCounting ==
    /\ gpc \in {"attempt", "got_result"} =>
        /\ provider_calls <= fails_script + 1
        /\ provider_calls = fails_script - fails_left + (IF CallReturned /\ ~exhausted
                                                         THEN 1 ELSE 0)
    /\ CallReturned =>
        /\ spec.max_retries >= fails_script + 1 =>
              /\ result = content
              /\ provider_calls = fails_script + 1
              /\ ~exhausted
        /\ spec.max_retries <= fails_script =>
              /\ result = NoneStr
              /\ provider_calls = spec.max_retries
              /\ exhausted

\* C6 witness: two failures then an answer, with max_retries = 3.
C6_Witness ==
    /\ CallReturned
    /\ fails_script = 2
    /\ spec.max_retries = 3
    /\ provider_calls = 3
    /\ result = <<" ", "h">>

\* Units of work of the whole run: num_calls_per_disease for each disease of
\* diseases() with a symptom present (none when nothing can be sampled).
\* The lines added to the output CSV since construction.
AppendedRows == SubSeq(out_csv, Len(PreparedFile(out_prior)) + 1, Len(out_csv))

ExpectedUnits ==
    IF spec.symptoms_per_call < 1 THEN 0
    ELSE spec.num_calls_per_disease *
         Cardinality({k \in 1..Len(CurrentDiseases) :
                         symptom_df.present[CurrentDiseases[k]] # <<>>})

\* C7: exhausted retries raise nothing: _call_gpt returns None, the unit adds
\* no row to the list nor to the CSV, and the run goes on to the next call and
\* the next diseases, so that it ends having started every unit.
C7_ExhaustionSkipsUnit ==
    /\ (g_error # None) => (gpc = "g_raised" /\ units_started = 0)
    /\ (CallReturned /\ exhausted) => result = NoneStr
    /\ gpc \in {"unit", "disease", "g_done"} =>
        /\ Len(AppendedRows) = units_started - units_exhausted - units_falsy
        /\ \A k \in 1..Len(AppendedRows) : AppendedRows[k].generated_call # NoneStr
        /\ AppendedRows = all_rows \o (IF gpc = "unit" THEN outputs ELSE <<>>)
    /\ gpc = "g_done" =>
        /\ units_started = ExpectedUnits
        /\ g_returned = AppendedRows

\* C7 witness: a finished run of four units, one of them exhausted, three rows.
C7_Witness ==
    /\ gpc = "g_done"
    /\ units_started = 4
    /\ units_exhausted = 1
    /\ units_falsy = 0
    /\ Len(g_returned) = 3

RECURSIVE Pow(_, _)
Pow(b, e) == IF e = 0 THEN 1 ELSE b * Pow(b, e - 1)

Max(a, b) == IF a > b THEN a ELSE b

\* C8: the wait after the k-th failed attempt is delay_seconds times
\* retry_backoff to the power k - 1; there is one wait per failed attempt that
\* another attempt follows: none after an answer, none after the last
\* permitted attempt.
C8_BackoffSchedule ==
    gpc \in {"attempt", "got_result"} =>
        /\ \A k \in 1..Len(waits) :
              waits[k] = spec.delay_seconds * Pow(spec.retry_backoff, k - 1)
        /\ Len(waits) = Min(fails_script - fails_left, Max(spec.max_retries - 1, 0))
        /\ (CallReturned /\ ~exhausted) => Len(waits) = provider_calls - 1
        /\ (CallReturned /\ exhausted) => Len(waits) = Max(spec.max_retries - 1, 0)

\* C8 witness: three failures with delay 2 and factor 3, then an answer: the
\* waits are 2, 6, 18.
C8_Witness ==
    /\ CallReturned
    /\ ~exhausted
    /\ spec.delay_seconds = 2
    /\ spec.retry_backoff = 3
    /\ waits = <<2, 6, 18>>

\* ======================================================================
\* Properties of the text-column step (InferSpec)
\* ======================================================================

\* Rank of a candidate name in the fixed priority list.
Priority(c) == CHOOSE k \in 1..Len(TextCandidates) : TextCandidates[k] = c

PresentCandidates == Range(TextCandidates) \cap Range(h_columns)

ArgsParsed == cli_pc # "main"

\* C11: when --voice-id is given to the csv command, every synthesis request
\* of the batch uses that id verbatim, whether or not --random-voice is given
\* too. (Violated: with --random-voice the command never reads --voice-id.)
C11_ExplicitVoiceIdWins ==
    (ArgsParsed /\ Truthy(args.voice_id)) =>
        \A k \in 1..Len(calls) : calls[k].voice_id = args.voice_id

\* ======================================================================
\* Voices, models and pacing of the batch (Spec, TagSpec)
\* ======================================================================

\* Random voice selection without a fixed voice.
RandomOnly == random_voice /\ ~Truthy(fixed_voice_id)

\* C12: with random voice selection and no fixed voice the voice list is
\* fetched exactly once per batch, before the first row and never again, and
\* the voice of every request and of every ledger entry is a member of that
\* one pool.
C12_PoolFetchedOnce ==
    RandomOnly =>
        /\ voice_fetches <= 1
        /\ (pc = "list_voices") => (voice_fetches = 0 /\ calls = <<>> /\ skipped = {})
        /\ LoopEntered => voice_fetches = 1
        /\ \A k \in 1..Len(calls) : calls[k].voice_id \in Range(pool)
        /\ \A k \in 1..Len(rows) : rows[k].voice_id \in Range(pool)
        /\ (pc = "done") =>
              \A k \in 1..Len(returned) : returned[k].voice_id \in Range(pool)

\* C12 witness: a finished batch of two rows over a pool of two voices, one
\* fetch, both rows drawing the same voice.
C12_Witness ==
    /\ RandomOnly
    /\ pc = "done"
    /\ voice_fetches = 1
    /\ Len(pool) = 2
    /\ Len(returned) = 2
    /\ returned[1].voice_id = returned[2].voice_id

\* ======================================================================
\* Properties of the voice auto-pick (PickSpec)
\* ======================================================================

\* The voice lists that hold the voices of l in another order.
Reorderings(l) ==
    { [i \in 1..Len(l) |-> l[f[i]]] :
        f \in { g \in [1..Len(l) -> 1..Len(l)] :
                  \A i, j \in 1..Len(l) : i # j => g[i] # g[j] } }

\* Sort key of a name, a descriptor without a name last.
NameKey(n) == IF n = Missing THEN Len(StringOrder) + 1 ELSE Rank(n)

\* Descriptor a is not after descriptor b in the order by (name, id).
NotAfter(a, b) ==
    \/ NameKey(a.name) < NameKey(b.name)
    \/ NameKey(a.name) = NameKey(b.name) /\ Rank(a.voice_id) <= Rank(b.voice_id)

\* C13: for a non-empty voice list, with or without names, the auto-pick
\* returns the id of the first entry by (name, id) ascending, and every
\* permutation of the list gives the same id. (Violated for a list in which
\* no entry has a name: the entry the provider lists first is returned.)
C13_AutoPickSortedFirst ==
    (k_pc = "k_returned" /\ k_outcome = "200" /\ k_voices # <<>>) =>
        /\ \E i \in 1..Len(k_voices) :
              /\ k_picked = k_voices[i].voice_id
              /\ \A j \in 1..Len(k_voices) : NotAfter(k_voices[i], k_voices[j])
        /\ \A q \in Reorderings(k_voices) : AutoPickExistingVoice("200", q) = k_picked

\* ======================================================================
\* The model of a request (TagSpec)
\* ======================================================================

HasBothBrackets(text) ==
    /\ \E i \in 1..Len(text) : text[i] = "["
    /\ \E i \in 1..Len(text) : text[i] = "]"

NamesV3(mid) == \E j \in 1..(Len(mid) - 1) : mid[j] = "v" /\ mid[j + 1] = "3"

\* C14: the model sent in a request is eleven_v3 exactly when the text has
\* both a "[" and a "]" and the configured model id does not name the v3
\* family, and the configured model id otherwise; the configured model id is
\* the same for every request of the batch.
C14_ModelUpgradeRule ==
    \A k \in 1..Len(calls) :
        calls[k].model_id =
            IF HasBothBrackets(calls[k].text) /\ ~NamesV3(model_id)
            THEN <<"e", "l", "e", "v", "e", "n", "_", "v", "3">>
            ELSE model_id

\* C14 witness: a finished batch whose first row was sent with the upgraded
\* model and whose second row, without brackets, with the configured one.
C14_Witness ==
    /\ pc = "done"
    /\ Len(calls) = 2
    /\ ~NamesV3(model_id)
    /\ HasBothBrackets(calls[1].text)
    /\ calls[1].model_id = <<"e", "l", "e", "v", "e", "n", "_", "v", "3">>
    /\ ~HasBothBrackets(calls[2].text)
    /\ calls[2].model_id = model_id

\* ======================================================================
\* Pacing of the batch (Spec)
\* ======================================================================

\* C15: every synthesis attempt, successful or failed, is followed by one
\* sleep before the loop goes on: while a request is out or just answered the
\* sleeps are one short of the requests, and at every other point (so whenever
\* the next request is issued, and when the batch returns) there has been one
\* sleep for every request made so far.
C15_SleepAfterEveryAttempt ==
    /\ (pc \in {"request", "sleep"}) => sleeps = Len(calls) - 1
    /\ (pc \notin {"request", "sleep"}) => sleeps = Len(calls)
    /\ Cardinality(failed) + Len(entry_rows) = Len(calls) - (IF pc = "request" THEN 1 ELSE 0)

\* C15 witness: the second request of a batch is out, the first one failed
\* and was followed by the sleep.
C15_Witness ==
    /\ pc = "request"
    /\ Len(calls) = 2
    /\ failed = {calls[1].idx}
    /\ sleeps = 1

\* ======================================================================
\* Noise mixing of the csv command (CliSpec)
\* ======================================================================

\* The command has finished with --noise given.
MixingDone == cli_pc = "cli_done" /\ Truthy(args.noise)

\* C16: mixing is attempted once for each clip of the ledger synthesize_csv
\* returned, in order, and the final ledger holds exactly the clips whose
\* mixing succeeded, with the mixed path and the id and voice_id unchanged,
\* whatever the pattern of failures. (Violated when every mix fails: the
\* final ledger is then the unmixed ledger.)
C16_FinalLedgerIsMixedClips ==
    MixingDone =>
        /\ mix_calls = [j \in 1..Len(returned) |-> returned[j].path]
        /\ Len(out_df) = Len(returned) - Cardinality(mix_failed)
        /\ \A k \in 1..Len(out_df) :
              \E j \in (1..Len(returned)) \ mix_failed :
                  out_df[k] = [id |-> returned[j].id, voice_id |-> returned[j].voice_id,
                               path |-> MixedPath(returned[j].path)]

\* ======================================================================
\* Persistence of the monologue ledger (GptSpec)
\* ======================================================================

\* The data rows the file held before the run.
EarlierRows == IF out_prior.exists THEN Tail(out_prior.lines) ELSE <<>>

\* The records of the units completed so far: those of the diseases already
\* returned, then those of the disease being generated.
CompletedUnits ==
    all_rows \o (IF gpc \in {"unit", "attempt", "got_result"} THEN outputs ELSE <<>>)

\* 1 while a unit is between its start and the handling of its result.
UnitInProgress ==
    IF gpc = "attempt" \/ (gpc = "got_result" /\ TruthyStr(result)) THEN 1 ELSE 0

IsPrefix(s, t) == Len(s) <= Len(t) /\ SubSeq(t, 1, Len(s)) = s

DataEnums == 1..(Len(in_rows) - 1)

\* The rows held by worker threads.
Running == {w.enum : w \in running}

\* C18: every data row is submitted exactly once and converted at most once;
\* at most 3 rows are being processed at any moment; a row is at one place
\* only (queued, being processed, or finished with one result); a failed or
\* malformed row gets a failed result and leaves the other rows alone, a
\* converted row that succeeds gets its own audio file; and the script ends
\* only when every submitted row has finished and its result was collected.
C18_BoundedParallelRows ==
    /\ submits = [k \in 1..Len(submits) |-> k]
    /\ Range(submits) \subseteq DataEnums
    /\ (par_pc \in {"collect", "p_done"}) => Range(submits) = DataEnums
    /\ \A e \in DataEnums : CopiesIn(e, converts) <= 1
    /\ Cardinality(running) <= 3
    /\ Cardinality(Running) = Cardinality(running)
    /\ Len(results) = Cardinality(Finished)
    /\ Range(queue) \cup Running \cup Finished = Range(submits)
    /\ Range(queue) \cap Running = {}
    /\ Range(queue) \cap Finished = {}
    /\ Running \cap Finished = {}
    /\ \A k \in 1..Len(results) :
          LET e == results[k].enum
          IN /\ results[k].success <=> AudioName(e) \in audio_files
             /\ results[k].success => CopiesIn(e, converts) = 1
             /\ (Len(in_rows[e + 1]) # 3) => (~results[k].success /\ CopiesIn(e, converts) = 0)
             /\ (Len(in_rows[e + 1]) = 3) => CopiesIn(e, converts) = 1
    /\ collected \subseteq Finished
    /\ (par_pc = "p_done") =>
          (collected = DataEnums /\ Finished = DataEnums /\ running = {} /\ queue = <<>>)

\* C18 witness: the script has ended on four data rows (one more than the
\* pool has threads); one well-formed row failed, one row was malformed, the
\* others succeeded, and the rows finished in another order than submitted.
C18_Witness ==
    /\ par_pc = "p_done"
    /\ Len(in_rows) = 5
    /\ \E k \in 1..Len(results) :
          ~results[k].success /\ Len(in_rows[results[k].enum + 1]) = 3
    /\ \E k \in 1..Len(results) : Len(in_rows[results[k].enum + 1]) # 3
    /\ Cardinality({k \in 1..Len(results) : results[k].success}) = 2
    /\ results[1].enum = 3

\* C19: once every future has resolved and the script has ended, the output
\* file holds one entry per completed row, appended in completion order.
\* (Violated: the results are read and dropped, output.csv stays empty.)
C19_OutputHoldsCompletedRows ==
    (par_pc = "p_done") =>
        /\ Len(output_file) = Len(results)
        /\ \A k \in 1..Len(output_file) : output_file[k] = results[k]

\* ======================================================================
\* The credential in authorization errors (Spec)
\* ======================================================================

\* C20: the detail of every 401 error, of list_voices or of synthesize_text,
\* shows only a proper suffix of the credential, never the whole credential,
\* whatever its length. (Violated for a credential of at most 6 characters:
\* api_key[-6:] is then the whole credential.)
C20_AuthErrorMasksKey ==
    \A t \in auth_tails :
        /\ t # api_key
        /\ Len(t) < Len(api_key)
        /\ t = SubSeq(api_key, Len(api_key) - Len(t) + 1, Len(api_key))

\* ======================================================================
\* Row identifiers of the batch (Spec)
\* ======================================================================

\* The id column is in the header of the file.
IdColumnPresent == id_col \in Range(csv.header)

\* "utt_" and the four decimal digits of n (n < 10000).
FourDigitId(n) ==
    <<"u", "t", "t", "_", DigitChars[((n \div 1000) % 10) + 1],
      DigitChars[((n \div 100) % 10) + 1], DigitChars[((n \div 10) % 10) + 1],
      DigitChars[(n % 10) + 1]>>

\* The id cell of the i-th row of the file, blank lines not being rows.
IdCell(i) == KeptLines(csv.lines)[i][ColPos(csv.header, id_col)]

ConfiguredCap ==
    IF q_class = "minimal" THEN 3
    ELSE IF q_cap = {} THEN Len(q_index) ELSE TheInt(q_cap)

\* The labels a cap of n keeps of an index of len labels, a cap below zero
\* keeping none.
KeptByCap(n, len) == Min(IF n < 0 THEN 0 ELSE n, len)

\* C22 as stated: diseases() is the index cut to its first cap labels, in
\* index order, whatever the configured cap is.
C22_FirstCapLabels ==
    (q_pc = "q_returned") =>
        /\ IsPrefix(q_result, q_index)
        /\ Len(q_result) = KeptByCap(ConfiguredCap, Len(q_index))

\* C22: diseases() returns labels of the index in index order and no other
\* label: the first cap labels when the cap is zero or more, all but the
\* last -cap labels when max_diseases is negative; when the index has no
\* more labels than the cap, every label of the index is returned.
C22_DiseasesTruncatedToCap ==
    (q_pc = "q_returned") =>
        /\ IsPrefix(q_result, q_index)
        /\ (ConfiguredCap >= 0) =>
              Len(q_result) = Min(ConfiguredCap, Len(q_index))
        /\ (ConfiguredCap < 0) =>
              Len(q_result) = KeptByCap(Len(q_index) + ConfiguredCap, Len(q_index))
        /\ (Len(q_index) <= ConfiguredCap) =>
              (q_result = q_index /\ Range(q_index) \subseteq Range(q_result))

\* C22 witness: the full generator with max_diseases = -1 on an index of
\* four labels returns the first three.
C22_Witness ==
    /\ q_pc = "q_returned"
    /\ q_class = "full"
    /\ q_cap = {-1}
    /\ Len(q_index) = 4
    /\ q_result = <<q_index[1], q_index[2], q_index[3]>>

\* ======================================================================
\* Frame of a failed synthesis request (TextSpec)
\* ======================================================================

\* The request raised, or the response is a 401 or another non-200 status.
RequestFailed == t_outcome \in {"raise", "204", "401", "500"}

\* C23: when the request raises or the response is not a 200, the call
\* raises with the directory and the destination file as they were before
\* the call, and never opens the destination; the disk differs from its
\* prior state only after a 200 response.
C23_FailedRequestLeavesDiskUnchanged ==
    /\ RequestFailed =>
          /\ t_disk = t_prior
          /\ t_pc \in {"t_responded", "t_raised"}
          /\ t_result = None
          /\ (t_pc = "t_raised") => (t_error # None)
    /\ (t_disk # t_prior) => (t_outcome = "200")

\* C23 witness: a 500 response raised while a file with earlier content is
\* at the output path, and the file still has that content.
C23_Witness ==
    /\ t_pc = "t_raised"
    /\ t_outcome = "500"
    /\ t_error = "RuntimeError:TTS failed"
    /\ t_prior.file = FileWith(<<"o", "l", "d">>)
    /\ t_disk = t_prior
====
